---- MODULE Spec2Model ----
(***************************************************************************)
(* Model of the schema assistant's two chat route handlers:                *)
(*   - the atomic-tool route (ToolLoopAgent, one tool per mutation, with   *)
(*     cancellation and an operation history), and                         *)
(*   - the legacy route (one modifySchema tool taking a batch).            *)
(*                                                                         *)
(* Strings that the code splits on '.' (table identifiers, fk references)  *)
(* are sequences of tokens, a token being either "." or a dot-free chunk.  *)
(* Other strings are TLA+ strings.  An optional value is <<>> (undefined)  *)
(* or <<v>>.  JavaScript objects that the code mutates in place (Table     *)
(* objects and their columns arrays) live in a heap and are referred to by *)
(* index, so that sharing between the live schema, the caller's schema and *)
(* the history records is observable.  Column objects are never mutated    *)
(* in place by either route and are plain values.                          *)
(***************************************************************************)
EXTENDS Integers, Sequences, FiniteSets, TLC

VARIABLES
    route,              \* which handler serves the request
    tHeap,              \* heap of Table objects
    aHeap,              \* heap of columns arrays
    bodySchema,         \* body.schema: key -> Table reference (caller's value)
    schemaState,        \* the working copy: key -> Table reference
    operationCount,
    totalOperations,
    operationHistory,   \* OperationRecord[], before/after are Table references
    aborted,            \* abortController.signal.aborted
    steps,              \* tool invocations so far with their results
    pre,                \* the closure as it was before the last transition
    \* the export dialogs' exportedCode (dependency ordering)
    tables,             \* the store's TableState: entries in insertion order
    keys,               \* tables not yet ordered
    output,             \* tables ordered so far
    forI,               \* for (let i in keys): the next index to visit
    forN,               \* for (let i in keys): the number of indices enumerated
    exportPc,           \* "idle", "while", "for" or "done"
    \* the UI message stream of the atomic-tool route
    streamPc,           \* where execute is, or how it ended
    intervalId,         \* TRUE while the progress interval is set
    lastStreamedOperationCount,
    written,            \* the parts written with writer.write, in order
    stepNumber,         \* steps the agent has taken
    awaited,            \* await result.text: "pending", "resolved", "rejected"
    \* the useChatHistory hook
    nextThreadId,       \* the number generateThreadId puts in its next id
    currentThreadId,    \* the state currentThreadId as last set
    renderedThreadId,   \* currentThreadId as the callbacks of the last render see it
    lastSavedStateRef,
    ignoreSavesUntilRef,    \* held as the ms from Date.now() until it, 0 if past
    saveTimeoutRef,     \* the debounce timer that is set (ms until due), or None
    pendingSaves,       \* timer callbacks that have fired and not yet written
    db,                 \* the threads store: id -> ChatThread
    createdAgo,         \* thread id -> ms since createNewThread made it
    lastWrites,         \* the last two writes of the store, in order
    timersSet,          \* the number of times the debounce timer was set
    lastCall,           \* the call of saveCurrentThread that has just returned
    deleted,            \* the threads deleted since saveCurrentThread was last called
    \* the SQL panel of the schema sidebar (SchemaSidebarSql)
    storeTables,        \* useStore().tables: key -> Table
    storeEnumTypes,     \* useStore().enumTypes: name -> EnumType
    selectedTable,      \* '__all__' or the key of the table shown
    error,              \* the message shown under the editor, or None
    lastApply,          \* the handleApply that has just returned
    \* a function of the program taken by itself
    argument,           \* the value it is called on
    returned            \* None, or the value it has returned

routeVars == <<route, tHeap, aHeap, bodySchema, schemaState, operationCount,
               totalOperations, operationHistory, aborted, steps, pre>>

exportVars == <<tables, keys, output, forI, forN, exportPc>>

streamVars == <<streamPc, intervalId, lastStreamedOperationCount, written,
                stepNumber, awaited>>

threadVars == <<nextThreadId, currentThreadId, renderedThreadId,
                lastSavedStateRef, ignoreSavesUntilRef, saveTimeoutRef,
                pendingSaves, db, createdAgo, lastWrites, timersSet, lastCall,
                deleted>>

sidebarVars == <<storeTables, storeEnumTypes, selectedTable, error, lastApply>>

callVars == <<argument, returned>>

panelVars == <<sidebarVars, callVars>>

vars == <<routeVars, exportVars, streamVars, threadVars, panelVars>>

-----------------------------------------------------------------------------
(* Bounds *)

\* Number of tool invocations explored per request (the agent itself stops
\* at StepLimit steps).
MaxSteps == 3

\* Number of operations in one legacy modifySchema batch.
MaxBatch == 2

\* Number of modifySchema invocations explored per legacy request.
MaxLegacyCalls == 1

\* stopWhen: stepCountIs(50)
StepLimit == 50

-----------------------------------------------------------------------------
(* Basic values *)

Dot == "."
None == <<>>
Some(v) == <<v>>
Null == 0

Last(s) == s[Len(s)]
Front(s) == SubSeq(s, 1, Len(s) - 1)

Public == <<"public">>

\* String.prototype.split('.') on a token string: the segments between dots.
RECURSIVE Split(_)
Split(s) ==
    IF \A i \in 1..Len(s) : s[i] # Dot
    THEN <<s>>
    ELSE LET i == CHOOSE j \in 1..Len(s) :
                     s[j] = Dot /\ \A k \in 1..(j - 1) : s[k] # Dot
         IN  <<SubSeq(s, 1, i - 1)>> \o Split(SubSeq(s, i + 1, Len(s)))

\* Array.prototype.join('.')
RECURSIVE Join(_)
Join(parts) ==
    IF Len(parts) = 0 THEN <<>>
    ELSE IF Len(parts) = 1 THEN parts[1]
    ELSE parts[1] \o <<Dot>> \o Join(Tail(parts))

\* schema is None when the identifier has no dot
parseTableIdentifier(tableId) ==
    LET parts == Split(tableId)
    IN  IF Len(parts) > 1
        THEN [schema |-> Some(Join(Front(parts))), name |-> Last(parts)]
        ELSE [schema |-> None, name |-> tableId]

\* JavaScript truthiness of an optional token string / of an input string field
TruthyOpt(o) == o # None /\ o[1] # <<>>
Has(r, f) == f \in DOMAIN r
TruthyField(r, f) == Has(r, f) /\ r[f] # ""
Opt(r, f) == IF Has(r, f) THEN Some(r[f]) ELSE None

\* normaliseColumn of the atomic-tool route
normaliseColumn(col) ==
    LET type == IF Has(col, "format") THEN col.format
                ELSE IF Has(col, "type") THEN col.type ELSE "text"
        format == IF Has(col, "type") THEN col.type
                  ELSE IF Has(col, "format") THEN col.format ELSE type
    IN  [title |-> col.title,
         type |-> type,
         format |-> format,
         default |-> Opt(col, "default"),
         required |-> IF Has(col, "required") THEN col.required ELSE FALSE,
         pk |-> IF Has(col, "pk") THEN col.pk ELSE FALSE,
         fk |-> Opt(col, "fk"),
         enumValues |-> Opt(col, "enumValues"),
         enumTypeName |-> Opt(col, "enumTypeName"),
         comment |-> Opt(col, "comment")]

\* normaliseColumn of the legacy route
legacyNormaliseColumn(input) ==
    LET type == IF Has(input, "type") THEN input.type
                ELSE IF Has(input, "format") THEN input.format ELSE "string"
        format == IF Has(input, "format") THEN input.format ELSE type
    IN  [title |-> input.title,
         type |-> type,
         format |-> format,
         default |-> Opt(input, "default"),
         required |-> IF Has(input, "required") THEN input.required ELSE FALSE,
         pk |-> IF Has(input, "pk") THEN input.pk ELSE FALSE,
         fk |-> Opt(input, "fk"),
         enumValues |-> Opt(input, "enumValues"),
         enumTypeName |-> Opt(input, "enumTypeName"),
         comment |-> Opt(input, "comment")]

\* columns.map(normaliseColumn)
\* (SubSeq makes the array a sequence value at once: a function constructor
\* is evaluated on demand, after later updates of the array)
NormaliseColumns(cols) ==
    SubSeq([i \in 1..Len(cols) |-> normaliseColumn(cols[i])], 1, Len(cols))
LegacyNormaliseColumns(cols) ==
    SubSeq([i \in 1..Len(cols) |-> legacyNormaliseColumn(cols[i])], 1, Len(cols))

-----------------------------------------------------------------------------
(* The heap.  A machine state m is the record of everything a handler's    *)
(* closure can reach; the tools are operators from a machine state and     *)
(* arguments to a new machine state and a result.                          *)

Cur ==
    [tHeap |-> tHeap, aHeap |-> aHeap, schemaState |-> schemaState,
     operationCount |-> operationCount, totalOperations |-> totalOperations,
     operationHistory |-> operationHistory, aborted |-> aborted]

\* Cur, with the number of invocations made so far
Snapshot ==
    [tHeap |-> tHeap, aHeap |-> aHeap, schemaState |-> schemaState,
     operationCount |-> operationCount, totalOperations |-> totalOperations,
     operationHistory |-> operationHistory, aborted |-> aborted,
     nsteps |-> Len(steps), bodySchema |-> bodySchema, nwritten |-> Len(written)]

\* Deep value of the Table object at ref (columns array inlined).
TableVal(m, ref) ==
    [title |-> m.tHeap[ref].title,
     schema |-> m.tHeap[ref].schema,
     is_view |-> m.tHeap[ref].is_view,
     columns |-> m.aHeap[m.tHeap[ref].columns],
     position |-> m.tHeap[ref].position]

\* Deep value of a Table | null
TableValOpt(m, ref) == IF ref = Null THEN None ELSE Some(TableVal(m, ref))

\* Deep value of a TableState
SchemaVal(m, s) == [k \in DOMAIN s |-> TableVal(m, s[k])]

\* structuredClone of one Table: a fresh Table object with a fresh array.
StructuredCloneTable(m, ref) ==
    LET a == Len(m.aHeap) + 1
        t == Len(m.tHeap) + 1
    IN  [m |-> [m EXCEPT !.aHeap = Append(@, m.aHeap[m.tHeap[ref].columns]),
                         !.tHeap = Append(@, [m.tHeap[ref] EXCEPT !.columns = a])],
         ref |-> t]

\* cloneTable(table?: Table): Table | null
cloneTableShared(m, ref) == [m |-> m, ref |-> ref]
cloneTable(m, ref) ==
    IF ref = Null THEN [m |-> m, ref |-> Null] ELSE StructuredCloneTable(m, ref)

\* cloneTables(tables): every entry of s cloned, keys kept.
RECURSIVE CloneEntries(_, _, _, _)
CloneEntries(m, s, todo, acc) ==
    IF todo = {} THEN [m |-> m, schema |-> acc]
    ELSE LET k == CHOOSE x \in todo : TRUE
             c == StructuredCloneTable(m, s[k])
         IN  CloneEntries(c.m, s, todo \ {k},
                          [x \in DOMAIN acc \cup {k} |->
                              IF x = k THEN c.ref ELSE acc[x]])

EmptySchema == [k \in {} |-> Null]

cloneTables(m, s) == CloneEntries(m, s, DOMAIN s, EmptySchema)

\* obj[key] = ref / delete obj[key]
SetKey(s, key, ref) == [x \in DOMAIN s \cup {key} |-> IF x = key THEN ref ELSE s[x]]
DeleteKeyByName(s, key) == [x \in {y \in DOMAIN s : Last(Split(y)) # Last(Split(key))} |-> s[x]]
DeleteKey(s, key) == [x \in DOMAIN s \ {key} |-> s[x]]
Lookup(s, key) == IF key \in DOMAIN s THEN s[key] ELSE Null

\* recordOperation: pushes a record holding clones of before and after.
\* (id and timestamp come from the clock and Math.random and are left out.)
recordOperationUnshift(m, type, tableId, before, after, description) ==
    LET b == cloneTable(m, before)
        a == cloneTable(b.m, after)
    IN  [a.m EXCEPT !.operationHistory =
            <<[type |-> type, tableId |-> tableId,
               before |-> b.ref, after |-> a.ref,
               description |-> description]>> \o @]
recordOperation(m, type, tableId, before, after, description) ==
    LET b == cloneTable(m, before)
        a == cloneTable(b.m, after)
    IN  [a.m EXCEPT !.operationHistory =
            Append(@, [type |-> type, tableId |-> tableId,
                       before |-> b.ref, after |-> a.ref,
                       description |-> description])]

Cancelled == [ok |-> FALSE, message |-> <<"Operation cancelled">>]

\* if (abortController.signal.aborted), the first statement of every execute
IsCancelledNever(m) == FALSE
IsCancelled(m) == m.aborted

\* existingColumns.some((c) => c.title === title)
HasColumnTitleNever(cols, title) == FALSE
HasColumnTitle(cols, title) == \E i \in 1..Len(cols) : cols[i].title = title

\* existing?.position || { x: 100 + n * 50, y: 100 + n * 50 }, n the number of keys
NewTablePositionDefault(m, existing) ==
    [x |-> 100 + Cardinality(DOMAIN m.schemaState) * 50,
     y |-> 100 + Cardinality(DOMAIN m.schemaState) * 50]
NewTablePosition(m, existing) ==
    IF existing # Null
    THEN m.tHeap[existing].position
    ELSE [x |-> 100 + Cardinality(DOMAIN m.schemaState) * 50,
          y |-> 100 + Cardinality(DOMAIN m.schemaState) * 50]

\* { ...source, schema: schema || source.schema || 'public', title: name }:
\* a new Table object that shares source's columns array
RenamedTableReset(source, toTableId) ==
    [source EXCEPT !.title = parseTableIdentifier(toTableId).name,
                   !.position = [x |-> 0, y |-> 0]]
RenamedTable(source, toTableId) ==
    LET schema == parseTableIdentifier(toTableId).schema
    IN  [source EXCEPT
           !.schema = IF TruthyOpt(schema) THEN schema
                      ELSE IF TruthyOpt(source.schema) THEN source.schema
                      ELSE Some(Public),
           !.title = parseTableIdentifier(toTableId).name]

-----------------------------------------------------------------------------
(* Atomic tools *)

createTable(m, args) ==
    IF IsCancelled(m) THEN [m |-> m, result |-> Cancelled]
    ELSE
    LET tableId == args.tableId
        isView == IF Has(args, "isView") THEN args.isView ELSE FALSE
        m1 == [m EXCEPT !.operationCount = @ + 1]
        schema == parseTableIdentifier(tableId).schema
        normalizedColumns == NormaliseColumns(args.columns)
        existing == Lookup(m1.schemaState, tableId)
        bs == cloneTable(m1, existing)
        m2 == bs.m
        arr == Len(m2.aHeap) + 1
        tbl == Len(m2.tHeap) + 1
        table == [title |-> parseTableIdentifier(tableId).name,
                  schema |-> IF TruthyOpt(schema) THEN schema ELSE Some(Public),
                  is_view |-> isView,
                  columns |-> arr,
                  position |-> NewTablePosition(m2, existing)]
        m3 == [m2 EXCEPT !.aHeap = Append(@, normalizedColumns),
                         !.tHeap = Append(@, table),
                         !.schemaState = SetKey(@, tableId, tbl)]
        m4 == recordOperation(m3, "createTable", tableId, bs.ref, tbl,
                  <<"Created ", IF isView THEN "view" ELSE "table", " '", tableId,
                    "' with ", Len(normalizedColumns), " columns">>)
    IN  [m |-> m4,
         result |-> [ok |-> TRUE,
                     message |-> <<"Created ", IF isView THEN "view" ELSE "table",
                                   " '", tableId, "'">>,
                     table |-> [id |-> tableId,
                                columnCount |-> Len(normalizedColumns),
                                columns |-> [i \in 1..Len(normalizedColumns) |->
                                                normalizedColumns[i].title]]]]


TableNotFound(tableId) == [ok |-> FALSE, message |-> <<"Table '", tableId, "' not found">>]

dropTable(m, args) ==
    IF IsCancelled(m) THEN [m |-> m, result |-> Cancelled]
    ELSE IF Lookup(m.schemaState, args.tableId) = Null
    THEN [m |-> m, result |-> TableNotFound(args.tableId)]
    ELSE
    LET tableId == args.tableId
        m1 == [m EXCEPT !.operationCount = @ + 1]
        bs == cloneTable(m1, m1.schemaState[tableId])
        m2 == [bs.m EXCEPT !.schemaState = DeleteKey(@, tableId)]
        m3 == recordOperation(m2, "dropTable", tableId, bs.ref, Null,
                  <<"Dropped table '", tableId, "'">>)
    IN  [m |-> m3,
         result |-> [ok |-> TRUE,
                     message |-> <<"Dropped table '", tableId, "'">>,
                     remainingTables |-> Cardinality(DOMAIN m3.schemaState)]]

renameTable(m, args) ==
    IF IsCancelled(m) THEN [m |-> m, result |-> Cancelled]
    ELSE IF Lookup(m.schemaState, args.fromTableId) = Null
    THEN [m |-> m, result |-> TableNotFound(args.fromTableId)]
    ELSE
    LET fromTableId == args.fromTableId
        toTableId == args.toTableId
        source == m.schemaState[fromTableId]
        m1 == [m EXCEPT !.operationCount = @ + 1]
        bs == cloneTable(m1, source)
        m2 == bs.m
        updated == RenamedTable(m2.tHeap[source], toTableId)
        upd == Len(m2.tHeap) + 1
        m3 == [m2 EXCEPT !.tHeap = Append(@, updated),
                         !.schemaState = SetKey(DeleteKey(@, fromTableId),
                                                toTableId, upd)]
        m4 == recordOperation(m3, "renameTable", toTableId, bs.ref, upd,
                  <<"Renamed table '", fromTableId, "' to '", toTableId, "'">>)
    IN  [m |-> m4,
         result |-> [ok |-> TRUE,
                     message |-> <<"Renamed '", fromTableId, "' to '",
                                   toTableId, "'">>]]

addColumn(m, args) ==
    IF IsCancelled(m) THEN [m |-> m, result |-> Cancelled]
    ELSE IF Lookup(m.schemaState, args.tableId) = Null
    THEN [m |-> m, result |-> TableNotFound(args.tableId)]
    ELSE
    LET tableId == args.tableId
        table == m.schemaState[tableId]
        m1 == [m EXCEPT !.operationCount = @ + 1]
        bs == cloneTable(m1, table)
        m2 == bs.m
        normalizedColumn == normaliseColumn(args.column)
        existingColumns == m2.aHeap[m2.tHeap[table].columns]
    IN  IF HasColumnTitle(existingColumns, normalizedColumn.title)
        THEN [m |-> m2,
              result |-> [ok |-> FALSE,
                          message |-> <<"Column '", normalizedColumn.title,
                                        "' already exists in '", tableId, "'">>]]
        ELSE
        LET arr == Len(m2.aHeap) + 1
            \* table.columns = [...existingColumns, normalizedColumn]
            m3 == [m2 EXCEPT !.aHeap = Append(@, Append(existingColumns,
                                                         normalizedColumn)),
                             !.tHeap[table].columns = arr]
            m4 == recordOperation(m3, "addColumn", tableId, bs.ref, table,
                      <<"Added column '", normalizedColumn.title, "' to '",
                        tableId, "'">>)
        IN  [m |-> m4,
             result |-> [ok |-> TRUE,
                         message |-> <<"Added column '", normalizedColumn.title,
                                       "' to '", tableId, "'">>,
                         column |-> normalizedColumn.title,
                         tableColumnCount |-> Len(existingColumns) + 1]]

\* Array.prototype.findIndex(c => c.title === columnName), 0 for -1
FindIndex(cols, columnName) ==
    IF \E i \in 1..Len(cols) : cols[i].title = columnName
    THEN CHOOSE i \in 1..Len(cols) :
             /\ cols[i].title = columnName
             /\ \A j \in 1..(i - 1) : cols[j].title # columnName
    ELSE 0

\* Array.prototype.filter(c => c.title !== columnName)
FilterTitleSplice(cols, columnName) ==
    LET i == IF FindIndex(cols, columnName) = 0 THEN Len(cols)
             ELSE FindIndex(cols, columnName)
    IN  SubSeq(cols, 1, i - 1) \o SubSeq(cols, i + 1, Len(cols))
RECURSIVE FilterTitle(_, _)
FilterTitle(cols, columnName) ==
    IF cols = <<>> THEN <<>>
    ELSE IF Head(cols).title # columnName
         THEN <<Head(cols)>> \o FilterTitle(Tail(cols), columnName)
         ELSE FilterTitle(Tail(cols), columnName)

dropColumn(m, args) ==
    IF IsCancelled(m) THEN [m |-> m, result |-> Cancelled]
    ELSE IF Lookup(m.schemaState, args.tableId) = Null
    THEN [m |-> m, result |-> TableNotFound(args.tableId)]
    ELSE
    LET tableId == args.tableId
        columnName == args.columnName
        table == m.schemaState[tableId]
        m1 == [m EXCEPT !.operationCount = @ + 1]
        bs == cloneTable(m1, table)
        m2 == bs.m
        originalLength == Len(m2.aHeap[m2.tHeap[table].columns])
        arr == Len(m2.aHeap) + 1
        \* table.columns = table.columns.filter(...), before the length test
        m3 == [m2 EXCEPT !.aHeap = Append(@, FilterTitle(
                                       m2.aHeap[m2.tHeap[table].columns],
                                       columnName)),
                         !.tHeap[table].columns = arr]
    IN  IF Len(m3.aHeap[arr]) = originalLength
        THEN [m |-> m3,
              result |-> [ok |-> FALSE,
                          message |-> <<"Column '", columnName,
                                        "' not found in '", tableId, "'">>]]
        ELSE
        LET m4 == recordOperation(m3, "dropColumn", tableId, bs.ref, table,
                      <<"Dropped column '", columnName, "' from '", tableId, "'">>)
        IN  [m |-> m4,
             result |-> [ok |-> TRUE,
                         message |-> <<"Dropped column '", columnName,
                                       "' from '", tableId, "'">>,
                         tableColumnCount |-> Len(m3.aHeap[arr])]]

\* { ...originalColumn, ...patch entries whose value is not undefined }
SpreadPatch(c, patch) ==
    [title |-> IF Has(patch, "title") THEN patch.title ELSE c.title,
     type |-> IF Has(patch, "type") THEN patch.type ELSE c.type,
     format |-> IF Has(patch, "format") THEN patch.format ELSE c.format,
     default |-> IF Has(patch, "default") THEN Some(patch.default) ELSE c.default,
     required |-> IF Has(patch, "required") THEN patch.required ELSE c.required,
     pk |-> IF Has(patch, "pk") THEN patch.pk ELSE c.pk,
     fk |-> IF Has(patch, "fk") THEN Some(patch.fk) ELSE c.fk,
     enumValues |-> IF Has(patch, "enumValues") THEN Some(patch.enumValues)
                    ELSE c.enumValues,
     enumTypeName |-> IF Has(patch, "enumTypeName") THEN Some(patch.enumTypeName)
                      ELSE c.enumTypeName,
     comment |-> IF Has(patch, "comment") THEN Some(patch.comment) ELSE c.comment]

\* the updatedColumn of the atomic alterColumn
AlterUpdatedColumn(originalColumn, patch) ==
    LET spread == SpreadPatch(originalColumn, patch)
    IN  IF TruthyField(patch, "type") \/ TruthyField(patch, "format")
        THEN [spread EXCEPT
                !.type = IF Has(patch, "format") THEN patch.format
                         ELSE IF Has(patch, "type") THEN patch.type
                         ELSE originalColumn.type,
                !.format = IF Has(patch, "type") THEN patch.type
                           ELSE IF Has(patch, "format") THEN patch.format
                           ELSE originalColumn.format]
        ELSE spread

alterColumn(m, args) ==
    IF IsCancelled(m) THEN [m |-> m, result |-> Cancelled]
    ELSE IF Lookup(m.schemaState, args.tableId) = Null
    THEN [m |-> m, result |-> TableNotFound(args.tableId)]
    ELSE
    LET tableId == args.tableId
        columnName == args.columnName
        patch == args.patch
        table == m.schemaState[tableId]
        m1 == [m EXCEPT !.operationCount = @ + 1]
        bs == cloneTable(m1, table)
        m2 == bs.m
        arr == m2.tHeap[table].columns
        columnIndex == FindIndex(m2.aHeap[arr], columnName)
    IN  IF columnIndex = 0
        THEN [m |-> m2,
              result |-> [ok |-> FALSE,
                          message |-> <<"Column '", columnName,
                                        "' not found in '", tableId, "'">>]]
        ELSE
        LET updatedColumn == AlterUpdatedColumn(m2.aHeap[arr][columnIndex], patch)
            \* table.columns[columnIndex] = updatedColumn, in place
            m3 == [m2 EXCEPT !.aHeap[arr][columnIndex] = updatedColumn]
            m4 == recordOperation(m3, "alterColumn", tableId, bs.ref, table,
                      <<"Altered column '", columnName, "' in '", tableId, "'">>)
        IN  [m |-> m4,
             result |-> [ok |-> TRUE,
                         message |-> <<"Updated column '", columnName,
                                       "' in '", tableId, "'">>,
                         changes |-> DOMAIN patch]]

(* Read-only tools *)

SystemSchemas == {<<"pg_catalog">>, <<"information_schema">>}

listSchemas(m, args) ==
    IF IsCancelled(m) THEN [m |-> m, result |-> Cancelled]
    ELSE
    LET includeSystem == IF Has(args, "includeSystem") THEN args.includeSystem
                         ELSE FALSE
        \* table.schema || key.split('.')[0] || 'public'
        SchemaOf(key) ==
            LET ts == m.tHeap[m.schemaState[key]].schema
            IN  IF TruthyOpt(ts) THEN ts[1]
                ELSE IF Split(key)[1] # <<>> THEN Split(key)[1] ELSE Public
        schemas == {SchemaOf(key) : key \in DOMAIN m.schemaState} \cup {Public}
    IN  [m |-> m,
         result |-> [schemas |-> {s \in schemas :
                                     includeSystem \/ s \notin SystemSchemas},
                     total |-> Cardinality(schemas)]]

\* String.prototype.includes at token granularity (all tokens are lower case,
\* so toLowerCase changes nothing)
Includes(s, sub) ==
    \E i \in 0..(Len(s) - Len(sub)) : SubSeq(s, i + 1, i + Len(sub)) = sub

Max(a, b) == IF a >= b THEN a ELSE b

\* limit and offset keep their defaults (100, 0), so the slice keeps every
\* filtered entry; the result's tables are given by their ids.
listTables(m, args) ==
    IF IsCancelled(m) THEN [m |-> m, result |-> Cancelled]
    ELSE
    LET TableSchema(key) ==
            LET ts == m.tHeap[m.schemaState[key]].schema
            IN  IF TruthyOpt(ts) THEN ts[1]
                ELSE IF \E i \in 1..Len(key) : key[i] = Dot
                     THEN Split(key)[1] ELSE Public
        Keep(key) ==
            /\ TruthyOpt(Opt(args, "schema")) => TableSchema(key) = args.schema
            /\ TruthyOpt(Opt(args, "search")) =>
                   Includes(TableSchema(key) \o <<Dot>>
                               \o m.tHeap[m.schemaState[key]].title,
                            args.search)
        filtered == {key \in DOMAIN m.schemaState : Keep(key)}
        total == Cardinality(filtered)
    IN  [m |-> IF total > 0
               THEN [m EXCEPT !.totalOperations = Max(@, total)]
               ELSE m,
         result |-> [total |-> total, tables |-> filtered]]

\* mutation of getTableDetails: the table is not looked up
getTableDetailsFound(m, args) ==
    IF IsCancelled(m) THEN [m |-> m, result |-> Cancelled]
    ELSE [m |-> m, result |-> [ok |-> TRUE, table |-> Null]]

getTableDetails(m, args) ==
    IF IsCancelled(m) THEN [m |-> m, result |-> Cancelled]
    ELSE IF Lookup(m.schemaState, args.tableId) = Null
    THEN [m |-> m, result |-> TableNotFound(args.tableId)]
    ELSE [m |-> m,
          result |-> [ok |-> TRUE, table |-> m.schemaState[args.tableId]]]


\* listSchemas, listTables and getTableDetails of the legacy route: no test
\* of the abort signal, table.schema ?? 'public', and a search that looks at
\* the table id and the column titles
legacyReadOnly(m, tool, args) ==
    LET SchemaOf(key) ==
            LET ts == m.tHeap[m.schemaState[key]].schema
            IN  IF ts = None THEN Public ELSE ts[1]
        Keep(key) ==
            /\ TruthyOpt(Opt(args, "schema")) => SchemaOf(key) = args.schema
            /\ TruthyOpt(Opt(args, "search")) =>
                   \/ Includes(key, args.search)
                   \/ LET cols == m.aHeap[m.tHeap[m.schemaState[key]].columns]
                      IN  \E i \in 1..Len(cols) :
                             Includes(<<cols[i].title>>, args.search)
        schemas == {SchemaOf(key) : key \in DOMAIN m.schemaState}
        filtered == {key \in DOMAIN m.schemaState : Keep(key)}
    IN  CASE tool = "listSchemas" ->
               LET listed == {sc \in schemas :
                                 (Has(args, "includeSystem") /\ args.includeSystem)
                                    \/ sc # <<"pg_catalog">>}
               IN  [m |-> m,
                    result |-> [schemas |-> listed, total |-> Cardinality(listed)]]
          [] tool = "listTables" ->
               [m |-> m,
                result |-> [total |-> Cardinality(filtered), tables |-> filtered]]
          [] tool = "getTableDetails" ->
               IF Lookup(m.schemaState, args.tableId) = Null
               THEN [m |-> m,
                     result |-> [ok |-> FALSE,
                                 message |-> <<"Table ", args.tableId,
                                               " not found.">>]]
               ELSE [m |-> m,
                     result |-> [ok |-> TRUE,
                                 table |-> m.schemaState[args.tableId]]]

-----------------------------------------------------------------------------
(* Legacy route: applySchemaOperations.  st is the loop's state: the       *)
(* machine state, the ok flag and operationsApplied.                       *)

Applied(st, operation, tableId, detail, status) ==
    Append(st.applied, [action |-> operation.action, tableId |-> tableId,
                        detail |-> detail, status |-> status])

LegacyError(st, operation, tableId, detail) ==
    [st EXCEPT !.ok = FALSE,
               !.applied = Applied(st, operation, tableId, detail, "error")]

legacyCreateTable(st, operation) ==
    LET m == st.m
        tableId == operation.tableId
        schema == parseTableIdentifier(tableId).schema
        columns == LegacyNormaliseColumns(operation.columns)
        existing == Lookup(m.schemaState, tableId)
        arr == Len(m.aHeap) + 1
        tbl == Len(m.tHeap) + 1
        table == [title |-> tableId,
                  schema |-> schema,
                  is_view |-> IF Has(operation, "isView") THEN operation.isView
                              ELSE FALSE,
                  columns |-> arr,
                  position |-> IF existing # Null THEN m.tHeap[existing].position
                               ELSE [x |-> 0, y |-> 0]]
    IN  [st EXCEPT
           !.m = [m EXCEPT !.aHeap = Append(@, columns),
                           !.tHeap = Append(@, table),
                           !.schemaState = SetKey(@, tableId, tbl)],
           !.applied = Applied(st, operation, tableId,
                          <<"Created ", tableId, " with ", Len(columns), " column",
                            IF Len(columns) = 1 THEN "" ELSE "s", ".">>,
                          "success")]

legacyDropTable(st, operation) ==
    IF Lookup(st.m.schemaState, operation.tableId) # Null
    THEN [st EXCEPT
            !.m.schemaState = DeleteKey(@, operation.tableId),
            !.applied = Applied(st, operation, operation.tableId,
                           <<"Removed ", operation.tableId, ".">>, "success")]
    ELSE LegacyError(st, operation, operation.tableId,
                     <<"Table ", operation.tableId, " not found.">>)

legacyRenameTable(st, operation) ==
    LET m == st.m
        source == Lookup(m.schemaState, operation.fromTableId)
    IN  IF source = Null
        THEN LegacyError(st, operation, operation.fromTableId,
                         <<"Table ", operation.fromTableId, " not found.">>)
        ELSE
        LET schema == parseTableIdentifier(operation.toTableId).schema
            updated == [m.tHeap[source] EXCEPT !.title = operation.toTableId,
                                               !.schema = schema]
            upd == Len(m.tHeap) + 1
        IN  [st EXCEPT
               !.m = [m EXCEPT !.tHeap = Append(@, updated),
                               !.schemaState =
                                   SetKey(DeleteKey(@, operation.fromTableId),
                                          operation.toTableId, upd)],
               !.applied = Applied(st, operation, operation.toTableId,
                              <<"Renamed ", operation.fromTableId, " to ",
                                operation.toTableId, ".">>, "success")]

legacyAddColumn(st, operation) ==
    LET m == st.m
        table == Lookup(m.schemaState, operation.tableId)
    IN  IF table = Null
        THEN LegacyError(st, operation, operation.tableId,
                         <<"Table ", operation.tableId, " not found.">>)
        ELSE
        LET column == legacyNormaliseColumn(operation.column)
            existingColumns == m.aHeap[m.tHeap[table].columns]
            arr == Len(m.aHeap) + 1
        IN  [st EXCEPT
               !.m = [m EXCEPT !.aHeap = Append(@, Append(existingColumns, column)),
                               !.tHeap[table].columns = arr],
               !.applied = Applied(st, operation, operation.tableId,
                              <<"Added column ", column.title, ".">>, "success")]

legacyDropColumn(st, operation) ==
    LET m == st.m
        table == Lookup(m.schemaState, operation.tableId)
    IN  IF table = Null
        THEN LegacyError(st, operation, operation.tableId,
                         <<"Column ", operation.columnName, " not found.">>)
        ELSE
        LET cols == m.aHeap[m.tHeap[table].columns]
            nextColumns == FilterTitle(cols, operation.columnName)
            arr == Len(m.aHeap) + 1
        IN  IF Len(nextColumns) = Len(cols)
            THEN LegacyError(st, operation, operation.tableId,
                             <<"Column ", operation.columnName, " not found.">>)
            ELSE [st EXCEPT
                    !.m = [m EXCEPT !.aHeap = Append(@, nextColumns),
                                    !.tHeap[table].columns = arr],
                    !.applied = Applied(st, operation, operation.tableId,
                                   <<"Removed column ", operation.columnName, ".">>,
                                   "success")]

\* the updatedColumn of the legacy alter_column
LegacyUpdatedColumn(originalColumn, patch) ==
    LET spread == SpreadPatch(originalColumn, patch)
        withType == IF TruthyField(patch, "format") /\ ~TruthyField(patch, "type")
                    THEN [spread EXCEPT !.type = patch.format] ELSE spread
    IN  IF TruthyField(patch, "type") /\ ~TruthyField(patch, "format")
        THEN [withType EXCEPT !.format = patch.type] ELSE withType

legacyAlterColumn(st, operation) ==
    LET m == st.m
        table == Lookup(m.schemaState, operation.tableId)
    IN  IF table = Null
        THEN LegacyError(st, operation, operation.tableId,
                         <<"Table ", operation.tableId, " not found.">>)
        ELSE
        LET cols == m.aHeap[m.tHeap[table].columns]
            columnIndex == FindIndex(cols, operation.columnName)
            arr == Len(m.aHeap) + 1
        IN  IF columnIndex = 0
            THEN LegacyError(st, operation, operation.tableId,
                             <<"Column ", operation.columnName, " not found.">>)
            ELSE [st EXCEPT
                    \* table.columns = table.columns.map(...): a new array
                    !.m = [m EXCEPT
                             !.aHeap = Append(@, [cols EXCEPT ![columnIndex] =
                                 LegacyUpdatedColumn(cols[columnIndex],
                                                     operation.patch)]),
                             !.tHeap[table].columns = arr],
                    !.applied = Applied(st, operation, operation.tableId,
                                   <<"Updated column ", operation.columnName, ".">>,
                                   "success")]

\* one iteration of the for loop: the switch on operation.action
LegacyApplyOne(st, operation) ==
    CASE operation.action = "create_table" -> legacyCreateTable(st, operation)
      [] operation.action = "drop_table" -> legacyDropTable(st, operation)
      [] operation.action = "rename_table" -> legacyRenameTable(st, operation)
      [] operation.action = "add_column" -> legacyAddColumn(st, operation)
      [] operation.action = "drop_column" -> legacyDropColumn(st, operation)
      [] operation.action = "alter_column" -> legacyAlterColumn(st, operation)

\* mutation of the loop: it ends after the first operation
LegacyLoopFirstOnly(st, operations) ==
    IF operations = <<>> THEN st ELSE LegacyApplyOne(st, Head(operations))

RECURSIVE LegacyLoop(_, _)
LegacyLoop(st, operations) ==
    IF operations = <<>> THEN st
    ELSE LegacyLoop(LegacyApplyOne(st, Head(operations)), Tail(operations))

applySchemaOperations(m, input) ==
    LET st == LegacyLoop([m |-> m, ok |-> TRUE, applied |-> <<>>], input.operations)
        c == cloneTables(st.m, st.m.schemaState)
    IN  [m |-> c.m,
         result |-> [ok |-> st.ok, tables |-> c.schema,
                     operationsApplied |-> st.applied]]

-----------------------------------------------------------------------------
(* Inputs: table identifiers, column definitions, patches and the schemas  *)
(* a client may send.                                                      *)

UsersId == <<"users">>
PostsId == <<"posts">>
AppUsersId == <<"app", Dot, "users">>
UsersIdRef == <<"users", Dot, "id">>

IdIn == [title |-> "id", type |-> "uuid", pk |-> TRUE, required |-> TRUE]
EmailIn == [title |-> "email", type |-> "string", format |-> "varchar",
            required |-> TRUE]
UserIdIn == [title |-> "user_id", type |-> "uuid", fk |-> UsersIdRef]
NoteIn == [title |-> "note"]
AgeIn == [title |-> "age", format |-> "int4"]

CreateTableArgs ==
    << [tableId |-> UsersId, columns |-> <<IdIn, EmailIn>>],
       [tableId |-> AppUsersId, columns |-> <<NoteIn, AgeIn, UserIdIn>>,
        isView |-> TRUE] >>

DropTableArgs == << [tableId |-> UsersId] >>

RenameTableArgs ==
    << [fromTableId |-> UsersId, toTableId |-> AppUsersId],
       [fromTableId |-> UsersId, toTableId |-> PostsId],
       [fromTableId |-> UsersId, toTableId |-> UsersId],
       [fromTableId |-> AppUsersId, toTableId |-> UsersId] >>

AddColumnArgs ==
    << [tableId |-> UsersId, column |-> NoteIn],
       [tableId |-> UsersId, column |-> EmailIn] >>

DropColumnArgs ==
    << [tableId |-> UsersId, columnName |-> "email"],
       [tableId |-> UsersId, columnName |-> "nonexistent"] >>

AlterColumnArgs ==
    << [tableId |-> UsersId, columnName |-> "email", patch |-> [format |-> "int4"]],
       [tableId |-> UsersId, columnName |-> "email",
        patch |-> [type |-> "integer", format |-> "int4"]],
       [tableId |-> UsersId, columnName |-> "email", patch |-> [type |-> ""]],
       [tableId |-> UsersId, columnName |-> "email",
        patch |-> [title |-> "mail", required |-> FALSE, comment |-> "c",
                   fk |-> UsersIdRef]],
       [tableId |-> UsersId, columnName |-> "nonexistent",
        patch |-> [type |-> "int"]] >>

ListSchemasArgs == << [includeSystem |-> TRUE] >>
ListTablesArgs == << [schema |-> Public, search |-> UsersId] >>
GetTableDetailsArgs == << [tableId |-> UsersId] >>

LegacyOperations ==
    << [action |-> "create_table", tableId |-> UsersId, columns |-> <<IdIn, EmailIn>>],
       [action |-> "drop_table", tableId |-> PostsId],
       [action |-> "rename_table", fromTableId |-> UsersId, toTableId |-> PostsId],
       [action |-> "add_column", tableId |-> UsersId, column |-> EmailIn],
       [action |-> "drop_column", tableId |-> UsersId, columnName |-> "email"],
       [action |-> "alter_column", tableId |-> UsersId, columnName |-> "email",
        patch |-> [type |-> "integer", format |-> "int4"]],
       [action |-> "alter_column", tableId |-> UsersId, columnName |-> "email",
        patch |-> [type |-> "int"]] >>

Column(title, type, required, pk, fk) ==
    [title |-> title, type |-> type, format |-> type, default |-> None,
     required |-> required, pk |-> pk, fk |-> fk, enumValues |-> None,
     enumTypeName |-> None, comment |-> None]

UsersTable ==
    [title |-> UsersId, schema |-> Some(Public), is_view |-> FALSE,
     columns |-> << Column("id", "uuid", TRUE, TRUE, None),
                    Column("email", "text", TRUE, FALSE, None) >>,
     position |-> [x |-> 10, y |-> 20]]

PostsTable ==
    [title |-> PostsId, schema |-> Some(Public), is_view |-> FALSE,
     columns |-> << Column("id", "uuid", TRUE, TRUE, None),
                    Column("user_id", "uuid", FALSE, FALSE, Some(UsersIdRef)) >>,
     position |-> [x |-> 30, y |-> 40]]

\* body.schema as deep values: nothing, or users and posts
BodySchemas ==
    << [k \in {} |-> UsersTable],
       [k \in {UsersId, PostsId} |-> IF k = UsersId THEN UsersTable ELSE PostsTable] >>

\* The request body parsed from JSON: one Table object and one array per entry.
RECURSIVE AllocEntries(_, _, _, _)
AllocEntries(m, deep, todo, acc) ==
    IF todo = {} THEN [m |-> m, schema |-> acc]
    ELSE LET k == CHOOSE x \in todo : TRUE
             a == Len(m.aHeap) + 1
             t == Len(m.tHeap) + 1
         IN  AllocEntries(
                 [m EXCEPT !.aHeap = Append(@, deep[k].columns),
                           !.tHeap = Append(@, [deep[k] EXCEPT !.columns = a])],
                 deep, todo \ {k}, SetKey(acc, k, t))

EmptyMachine ==
    [tHeap |-> <<>>, aHeap |-> <<>>, schemaState |-> EmptySchema,
     operationCount |-> 0, totalOperations |-> 0, operationHistory |-> <<>>,
     aborted |-> FALSE]

-----------------------------------------------------------------------------
(* Components that are not running *)

\* no export dialog is open
ExportIdle ==
    /\ tables = <<>>
    /\ keys = <<>>
    /\ output = <<>>
    /\ forI = 0
    /\ forN = 0
    /\ exportPc = "idle"

\* execute of createUIMessageStream has not been called
StreamIdle ==
    /\ streamPc = "idle"
    /\ intervalId = FALSE
    /\ lastStreamedOperationCount = 0
    /\ written = <<>>
    /\ stepNumber = 0
    /\ awaited = "pending"

\* the hook has been mounted and none of its callbacks has been called
ThreadIdle ==
    /\ nextThreadId = 1
    /\ currentThreadId = None
    /\ renderedThreadId = None
    /\ lastSavedStateRef = [threadId |-> None, messageCount |-> 0]
    /\ ignoreSavesUntilRef = 0
    /\ saveTimeoutRef = None
    /\ pendingSaves = <<>>
    /\ db = <<>>
    /\ createdAgo = <<>>
    /\ lastWrites = <<>>
    /\ timersSet = 0
    /\ lastCall = None
    /\ deleted = {}

\* the SQL panel has not been mounted
SidebarIdle ==
    /\ storeTables = <<>>
    /\ storeEnumTypes = <<>>
    /\ selectedTable = "__all__"
    /\ error = None
    /\ lastApply = None

\* no function is being called by itself
CallIdle ==
    /\ argument = None
    /\ returned = None

PanelIdle == SidebarIdle /\ CallIdle

\* no request is being served
RouteIdle ==
    /\ route = "none"
    /\ tHeap = <<>>
    /\ aHeap = <<>>
    /\ bodySchema = EmptySchema
    /\ schemaState = EmptySchema
    /\ operationCount = 0
    /\ totalOperations = 0
    /\ operationHistory = <<>>
    /\ aborted = FALSE
    /\ steps = <<>>
    /\ pre = Snapshot

-----------------------------------------------------------------------------
(* The request *)

Init ==
    /\ route \in {"atomic", "legacy"}
    /\ \E i \in DOMAIN BodySchemas :
         LET b == AllocEntries(EmptyMachine, BodySchemas[i],
                               DOMAIN BodySchemas[i], EmptySchema)
             \* const schemaState = cloneTables(body.schema)
             c == cloneTables(b.m, b.schema)
         IN  /\ bodySchema = b.schema
             /\ schemaState = c.schema
             /\ tHeap = c.m.tHeap
             /\ aHeap = c.m.aHeap
    /\ operationCount = 0
    /\ totalOperations = 0
    /\ operationHistory = <<>>
    /\ aborted = FALSE
    /\ steps = <<>>
    /\ ExportIdle
    /\ StreamIdle
    /\ ThreadIdle
    /\ PanelIdle
    /\ pre = Snapshot

\* A tool's execute ran: its effect on the closure and its result.
CommitRoute(r, tool, args) ==
    /\ tHeap' = r.m.tHeap
    /\ aHeap' = r.m.aHeap
    /\ schemaState' = r.m.schemaState
    /\ operationCount' = r.m.operationCount
    /\ totalOperations' = r.m.totalOperations
    /\ operationHistory' = r.m.operationHistory
    /\ steps' = Append(steps, [tool |-> tool, args |-> args, result |-> r.result])
    /\ pre' = Snapshot
    /\ UNCHANGED <<route, bodySchema, aborted>>

Commit(r, tool, args) ==
    /\ CommitRoute(r, tool, args)
    /\ UNCHANGED <<exportVars, streamVars, threadVars, panelVars>>

\* The agent calls a tool whatever the earlier tools returned, until it stops.
CanStepUnlessFailed(r) ==
    /\ route = r /\ Len(steps) < MaxSteps /\ Len(steps) < StepLimit
    /\ Len(steps) > 0 =>
          ~("ok" \in DOMAIN Last(steps).result /\ ~Last(steps).result.ok)
CanStep(r) == route = r /\ Len(steps) < MaxSteps /\ Len(steps) < StepLimit

ListSchemas ==
    /\ CanStep("atomic")
    /\ \E i \in DOMAIN ListSchemasArgs :
         Commit(listSchemas(Cur, ListSchemasArgs[i]), "listSchemas", ListSchemasArgs[i])

ListTables ==
    /\ CanStep("atomic")
    /\ \E i \in DOMAIN ListTablesArgs :
         Commit(listTables(Cur, ListTablesArgs[i]), "listTables", ListTablesArgs[i])

GetTableDetails ==
    /\ CanStep("atomic")
    /\ \E i \in DOMAIN GetTableDetailsArgs :
         Commit(getTableDetails(Cur, GetTableDetailsArgs[i]), "getTableDetails",
                GetTableDetailsArgs[i])

CreateTable ==
    /\ CanStep("atomic")
    /\ \E i \in DOMAIN CreateTableArgs :
         Commit(createTable(Cur, CreateTableArgs[i]), "createTable", CreateTableArgs[i])

DropTable ==
    /\ CanStep("atomic")
    /\ \E i \in DOMAIN DropTableArgs :
         Commit(dropTable(Cur, DropTableArgs[i]), "dropTable", DropTableArgs[i])

RenameTable ==
    /\ CanStep("atomic")
    /\ \E i \in DOMAIN RenameTableArgs :
         Commit(renameTable(Cur, RenameTableArgs[i]), "renameTable", RenameTableArgs[i])

AddColumn ==
    /\ CanStep("atomic")
    /\ \E i \in DOMAIN AddColumnArgs :
         Commit(addColumn(Cur, AddColumnArgs[i]), "addColumn", AddColumnArgs[i])

DropColumn ==
    /\ CanStep("atomic")
    /\ \E i \in DOMAIN DropColumnArgs :
         Commit(dropColumn(Cur, DropColumnArgs[i]), "dropColumn", DropColumnArgs[i])

AlterColumn ==
    /\ CanStep("atomic")
    /\ \E i \in DOMAIN AlterColumnArgs :
         Commit(alterColumn(Cur, AlterColumnArgs[i]), "alterColumn", AlterColumnArgs[i])

\* The legacy route's modifySchema tool, with a batch of 1..MaxBatch operations
ModifySchema ==
    /\ route = "legacy"
    /\ Len(steps) < MaxLegacyCalls
    /\ \E n \in 1..MaxBatch :
         \E f \in [1..n -> DOMAIN LegacyOperations] :
            LET input == [operations |-> [i \in 1..n |-> LegacyOperations[f[i]]]]
            IN  Commit(applySchemaOperations(Cur, input), "modifySchema", input)

\* The legacy route's listSchemas, listTables and getTableDetails tools
LegacyReadOnlyTool ==
    /\ route = "legacy"
    /\ Len(steps) < MaxLegacyCalls
    /\ \E call \in {[tool |-> "listSchemas", args |-> ListSchemasArgs[1]],
                     [tool |-> "listTables", args |-> ListTablesArgs[1]],
                     [tool |-> "getTableDetails", args |-> GetTableDetailsArgs[1]]} :
         Commit(legacyReadOnly(Cur, call.tool, call.args), call.tool, call.args)

\* req.signal fires 'abort\': the listener calls abortController.abort()
Abort ==
    /\ route = "atomic"
    /\ ~aborted
    /\ aborted' = TRUE
    /\ pre' = Snapshot
    /\ UNCHANGED <<route, tHeap, aHeap, bodySchema, schemaState, operationCount,
                   totalOperations, operationHistory, steps>>
    /\ UNCHANGED <<exportVars, streamVars, threadVars, panelVars>>

Next ==
    \/ ListSchemas
    \/ ListTables
    \/ GetTableDetails
    \/ CreateTable
    \/ DropTable
    \/ RenameTable
    \/ AddColumn
    \/ DropColumn
    \/ AlterColumn
    \/ Abort
    \/ ModifySchema
    \/ LegacyReadOnlyTool

Spec == Init /\ [][Next]_vars

-----------------------------------------------------------------------------
(* Vocabulary of the properties.  pre is the closure before the last       *)
(* transition, so a property of one invocation is a state predicate        *)
(* relating pre, the invocation Call and the current state.                *)

MutatingTools ==
    {"createTable", "dropTable", "renameTable", "addColumn", "dropColumn",
     "alterColumn"}
AtomicTools == MutatingTools \cup {"listSchemas", "listTables", "getTableDetails"}

\* The last transition was a tool invocation; Call is that invocation.
Stepped == Len(steps) = pre.nsteps + 1
Call == Last(steps)

\* The result object carries ok: true / ok: false
IsOk(r) == Has(r, "ok") /\ r.ok
IsNotOk(r) == Has(r, "ok") /\ ~r.ok

\* Deep values of the working schema, of the caller's schema and of the
\* history, now and before the last transition
Tables == SchemaVal(Cur, schemaState)
PreTables == SchemaVal(pre, pre.schemaState)
BodyTables == SchemaVal(Cur, bodySchema)
RecordVal(m, r) ==
    [type |-> r.type, tableId |-> r.tableId,
     before |-> TableValOpt(m, r.before), after |-> TableValOpt(m, r.after)]
HistoryVal(m) ==
    [i \in 1..Len(m.operationHistory) |-> RecordVal(m, m.operationHistory[i])]
History == HistoryVal(Cur)
PreHistory == HistoryVal(pre)

Titles(cols) == {cols[i].title : i \in 1..Len(cols)}

\* The successful mutating invocations among the steps, in order
RECURSIVE SuccessfulMutations(_)
SuccessfulMutations(ss) ==
    IF ss = <<>> THEN <<>>
    ELSE IF Head(ss).tool \in MutatingTools /\ IsOk(Head(ss).result)
         THEN <<Head(ss)>> \o SuccessfulMutations(Tail(ss))
         ELSE SuccessfulMutations(Tail(ss))

\* The key a mutating invocation reads its table from, and the key it writes
SourceKey(c) == IF c.tool = "renameTable" THEN c.args.fromTableId ELSE c.args.tableId
TargetKey(c) == IF c.tool = "renameTable" THEN c.args.toTableId ELSE c.args.tableId

-----------------------------------------------------------------------------
(* C1: once the abort signal has fired, every later invocation of any of   *)
(* the nine tools returns {ok: false, message: "Operation cancelled"} and  *)
(* leaves the working schema, the operation counter and the operation      *)
(* history exactly as they were.                                           *)
CancellationSafety ==
    (pre.aborted /\ Stepped) =>
        /\ Call.tool \in AtomicTools
        /\ Call.result = Cancelled
        /\ Tables = PreTables
        /\ schemaState = pre.schemaState
        /\ operationCount = pre.operationCount
        /\ History = PreHistory
        /\ operationHistory = pre.operationHistory

\* An abort in the middle of a sequence: an operation was recorded before it
\* and a createTable invoked after it was cancelled.
CancellationWitness ==
    /\ pre.aborted
    /\ Stepped
    /\ Len(operationHistory) > 0
    /\ Call.tool = "createTable"
    /\ Call.result = Cancelled

-----------------------------------------------------------------------------
(* C2: with N successful mutating invocations the history holds N records, *)
(* and processing the records from last to first, setting the table at     *)
(* record.tableId to record.before (removing the key when before is null), *)
(* reconstructs the starting schema.                                       *)

UndoOne(S, r) ==
    IF r.before = None
    THEN [k \in DOMAIN S \ {r.tableId} |-> S[k]]
    ELSE [k \in DOMAIN S \cup {r.tableId} |->
             IF k = r.tableId THEN r.before[1] ELSE S[k]]

RECURSIVE UndoAll(_, _)
UndoAll(S, h) == IF h = <<>> THEN S ELSE UndoAll(UndoOne(S, Last(h)), Front(h))

UndoRecordFidelity ==
    route = "atomic" =>
        /\ Len(operationHistory) = Len(SuccessfulMutations(steps))
        /\ UndoAll(Tables, History) = BodyTables

-----------------------------------------------------------------------------
(* C3: a record appended by an operation holds as before the value of the  *)
(* operated table immediately before the operation (null when createTable  *)
(* adds a new key) and as after its value immediately after (null for      *)
(* dropTable); no later step changes the before or after value of a record *)
(* already in the history.                                                 *)
RecordsAreIsolatedSnapshots ==
    /\ \A i \in 1..Len(pre.operationHistory) :
          /\ i <= Len(operationHistory)
          /\ History[i] = PreHistory[i]
    /\ (Stepped /\ Len(operationHistory) = Len(pre.operationHistory) + 1) =>
          LET r == Last(History)
          IN  /\ r.before = TableValOpt(pre, Lookup(pre.schemaState, SourceKey(Call)))
              /\ r.after = TableValOpt(Cur, Lookup(schemaState, TargetKey(Call)))
              /\ (Call.tool = "createTable"
                     /\ Call.args.tableId \notin DOMAIN pre.schemaState)
                    => r.before = None
              /\ Call.tool = "dropTable" <=> r.after = None

\* A table was created, recorded, and then altered by a later operation.
RecordsIsolatedWitness ==
    /\ Len(operationHistory) >= 2
    /\ operationHistory[1].type = "createTable"
    /\ operationHistory[2].type \in {"addColumn", "alterColumn", "dropColumn"}
    /\ operationHistory[2].tableId = operationHistory[1].tableId
    /\ History[1].after # History[2].after

-----------------------------------------------------------------------------
(* C4: the history is append-only and in call order: a mutating invocation *)
(* that returns ok: true appends exactly one record of its own type at the *)
(* end; failed, cancelled and read-only invocations append nothing; no     *)
(* record is removed or reordered.                                         *)
HistoryAppendOnlyInCallOrder ==
    /\ IF Stepped /\ Call.tool \in MutatingTools /\ IsOk(Call.result)
       THEN /\ Len(operationHistory) = Len(pre.operationHistory) + 1
            /\ SubSeq(operationHistory, 1, Len(pre.operationHistory))
                   = pre.operationHistory
            /\ Last(operationHistory).type = Call.tool
            /\ Last(operationHistory).tableId = TargetKey(Call)
       ELSE operationHistory = pre.operationHistory
    /\ LET done == SuccessfulMutations(steps)
       IN  /\ Len(operationHistory) = Len(done)
           /\ \A i \in 1..Len(done) :
                 /\ operationHistory[i].type = done[i].tool
                 /\ operationHistory[i].tableId = TargetKey(done[i])

\* Two records of different types with a failed invocation between them.
HistoryOrderWitness ==
    /\ Len(steps) = 3
    /\ IsOk(steps[1].result) /\ steps[1].tool \in MutatingTools
    /\ IsNotOk(steps[2].result) /\ steps[2].tool \in MutatingTools
    /\ IsOk(steps[3].result) /\ steps[3].tool \in MutatingTools
    /\ steps[1].tool # steps[3].tool
    /\ Len(operationHistory) = 2

-----------------------------------------------------------------------------
(* C5: addColumn with a title the existing table does not have succeeds    *)
(* and appends the column; called again with the same title on the same    *)
(* table it returns ok: false and leaves the column list unchanged.        *)
AddColumnDuplicateRejected ==
    /\ (Stepped /\ Call.tool = "addColumn" /\ ~pre.aborted
            /\ Call.args.tableId \in DOMAIN pre.schemaState) =>
          LET t == Call.args.tableId
              old == PreTables[t].columns
              new == Tables[t].columns
          IN  IF Call.args.column.title \in Titles(old)
              THEN IsNotOk(Call.result) /\ new = old
              ELSE /\ IsOk(Call.result)
                   /\ Len(new) = Len(old) + 1
                   /\ SubSeq(new, 1, Len(old)) = old
                   /\ Last(new).title = Call.args.column.title
    /\ (/\ Stepped
        /\ Len(steps) >= 2
        /\ Call.tool = "addColumn"
        /\ steps[Len(steps) - 1].tool = "addColumn"
        /\ IsOk(steps[Len(steps) - 1].result)
        /\ steps[Len(steps) - 1].args.tableId = Call.args.tableId
        /\ steps[Len(steps) - 1].args.column.title = Call.args.column.title) =>
          /\ IsNotOk(Call.result)
          /\ Tables[Call.args.tableId].columns = PreTables[Call.args.tableId].columns

\* The same addColumn twice in a row: the first succeeded, the second was
\* rejected as a duplicate.
AddColumnTwiceWitness ==
    /\ Stepped
    /\ Len(steps) >= 2
    /\ Call.tool = "addColumn"
    /\ steps[Len(steps) - 1].tool = "addColumn"
    /\ steps[Len(steps) - 1].args = Call.args
    /\ IsOk(steps[Len(steps) - 1].result)
    /\ IsNotOk(Call.result)
    /\ Call.result.message[3] = "' already exists in '"

-----------------------------------------------------------------------------
(* C6: whenever dropTable, renameTable, addColumn, dropColumn or           *)
(* alterColumn returns ok: false, the working schema is identical to the   *)
(* schema before the call and no record is appended; dropColumn of a       *)
(* column the table does not have returns ok: false and leaves the         *)
(* table's columns unchanged.                                              *)
FailedOperationsChangeNothing ==
    /\ (Stepped /\ Call.tool \in MutatingTools \ {"createTable"}
            /\ IsNotOk(Call.result)) =>
          /\ Tables = PreTables
          /\ DOMAIN schemaState = DOMAIN pre.schemaState
          /\ History = PreHistory
          /\ Len(operationHistory) = Len(pre.operationHistory)
    /\ (Stepped /\ Call.tool = "dropColumn"
            /\ Call.args.tableId \in DOMAIN pre.schemaState
            /\ Call.args.columnName
                  \notin Titles(PreTables[Call.args.tableId].columns)) =>
          /\ IsNotOk(Call.result)
          /\ Tables[Call.args.tableId].columns
                = PreTables[Call.args.tableId].columns

\* dropColumn("users", "nonexistent") on an existing users table, not cancelled
FailedDropColumnWitness ==
    /\ Stepped
    /\ ~pre.aborted
    /\ Call.tool = "dropColumn"
    /\ Call.args.columnName = "nonexistent"
    /\ Call.args.tableId \in DOMAIN pre.schemaState
    /\ Len(PreTables[Call.args.tableId].columns) > 0
    /\ IsNotOk(Call.result)

-----------------------------------------------------------------------------
(* C7: renameTable(from, to) with an existing source succeeds, removes key *)
(* from and stores the table under key to with the same columns and the    *)
(* same position; every other table, and so every fk string of every      *)
(* other table, is left as it was.                                         *)
RenameKeepsColumnsPositionAndForeignKeys ==
    (Stepped /\ Call.tool = "renameTable" /\ ~pre.aborted
         /\ Call.args.fromTableId \in DOMAIN pre.schemaState) =>
       LET from == Call.args.fromTableId
           to == Call.args.toTableId
       IN  /\ IsOk(Call.result)
           /\ DOMAIN schemaState = (DOMAIN pre.schemaState \ {from}) \cup {to}
           /\ Tables[to].columns = PreTables[from].columns
           /\ Tables[to].position = PreTables[from].position
           /\ \A k \in DOMAIN schemaState \ {to} :
                 /\ Tables[k] = PreTables[k]
                 /\ \A i \in 1..Len(Tables[k].columns) :
                       Tables[k].columns[i].fk = PreTables[k].columns[i].fk

\* renameTable("users", "app.users") while posts.user_id references users.id:
\* the key users is gone and the fk string still names users.
RenameDanglingFkWitness ==
    /\ Stepped
    /\ Call.tool = "renameTable"
    /\ IsOk(Call.result)
    /\ Call.args.fromTableId = UsersId
    /\ Call.args.toTableId = AppUsersId
    /\ UsersId \notin DOMAIN schemaState
    /\ PostsId \in DOMAIN schemaState
    /\ \E i \in 1..Len(Tables[PostsId].columns) :
          Tables[PostsId].columns[i].fk = Some(UsersIdRef)

-----------------------------------------------------------------------------
-----------------------------------------------------------------------------
(* C9: a mutating invocation changes at most the entry of the table it     *)
(* names (renameTable: fromTableId and toTableId); every other key maps to *)
(* an identical table before and after, and at most one record is          *)
(* appended.                                                               *)
OneEntityPerInvocation ==
    (Stepped /\ Call.tool \in MutatingTools) =>
       /\ \A k \in (DOMAIN pre.schemaState \cup DOMAIN schemaState)
                      \ {SourceKey(Call), TargetKey(Call)} :
             /\ k \in DOMAIN pre.schemaState
             /\ k \in DOMAIN schemaState
             /\ Tables[k] = PreTables[k]
       /\ Len(operationHistory) <= Len(pre.operationHistory) + 1
       /\ Len(operationHistory) >= Len(pre.operationHistory)

\* dropTable removed users while posts and app.users were in the schema
OneEntityWitness ==
    /\ Stepped
    /\ Call.tool = "dropTable"
    /\ IsOk(Call.result)
    /\ DOMAIN pre.schemaState = {UsersId, PostsId, AppUsersId}
    /\ DOMAIN schemaState = {PostsId, AppUsersId}

-----------------------------------------------------------------------------
(* C10: alterColumn on an existing column overwrites exactly the fields    *)
(* the patch gives, re-derives type and format when the patch gives type   *)
(* or format (type := patch.format, else patch.type; format := patch.type, *)
(* else patch.format), and leaves the number and order of columns and      *)
(* every other column unchanged.                                           *)

\* the column the statement above describes
DescribedAlter(c, patch) ==
    [title |-> IF Has(patch, "title") THEN patch.title ELSE c.title,
     type |-> IF Has(patch, "format") THEN patch.format
              ELSE IF Has(patch, "type") THEN patch.type ELSE c.type,
     format |-> IF Has(patch, "type") THEN patch.type
                ELSE IF Has(patch, "format") THEN patch.format ELSE c.format,
     default |-> IF Has(patch, "default") THEN Some(patch.default) ELSE c.default,
     required |-> IF Has(patch, "required") THEN patch.required ELSE c.required,
     pk |-> IF Has(patch, "pk") THEN patch.pk ELSE c.pk,
     fk |-> IF Has(patch, "fk") THEN Some(patch.fk) ELSE c.fk,
     enumValues |-> IF Has(patch, "enumValues") THEN Some(patch.enumValues)
                    ELSE c.enumValues,
     enumTypeName |-> IF Has(patch, "enumTypeName") THEN Some(patch.enumTypeName)
                      ELSE c.enumTypeName,
     comment |-> IF Has(patch, "comment") THEN Some(patch.comment) ELSE c.comment]

AtomicAlterAsDescribed ==
    (Stepped /\ Call.tool = "alterColumn" /\ ~pre.aborted
         /\ Call.args.tableId \in DOMAIN pre.schemaState
         /\ Call.args.columnName
               \in Titles(PreTables[Call.args.tableId].columns)) =>
       LET old == PreTables[Call.args.tableId].columns
           new == Tables[Call.args.tableId].columns
           i == FindIndex(old, Call.args.columnName)
       IN  /\ IsOk(Call.result)
           /\ Len(new) = Len(old)
           /\ \A j \in 1..Len(old) : j # i => new[j] = old[j]
           /\ new[i] = DescribedAlter(old[i], Call.args.patch)

LegacyAlterAsDescribed ==
    (Stepped /\ Call.tool = "modifySchema"
         /\ Last(Call.args.operations).action = "alter_column") =>
       LET op == Last(Call.args.operations)
           before == LegacyLoop([m |-> pre, ok |-> TRUE, applied |-> <<>>],
                                Front(Call.args.operations)).m
       IN  (/\ op.tableId \in DOMAIN before.schemaState
            /\ op.columnName
                  \in Titles(TableVal(before, before.schemaState[op.tableId]).columns)) =>
              LET old == TableVal(before, before.schemaState[op.tableId]).columns
                  new == Tables[op.tableId].columns
                  i == FindIndex(old, op.columnName)
              IN  /\ Last(Call.result.operationsApplied).status = "success"
                  /\ Len(new) = Len(old)
                  /\ \A j \in 1..Len(old) : j # i => new[j] = old[j]
                  /\ new[i] = DescribedAlter(old[i], op.patch)

\* C10: on both routes, alterColumn / alter_column of an existing column yields
\* the described column and keeps the count, order and other columns.
AlterColumnOverwritesAndRederives ==
    AtomicAlterAsDescribed /\ LegacyAlterAsDescribed

-----------------------------------------------------------------------------
(* The export dialogs (ModalSQL in HelperZoom.tsx, ModalTypes.tsx): the    *)
(* exportedCode memo orders the store's tables by their foreign keys and  *)
(* emits one statement per table.  The store's TableState is a sequence   *)
(* of entries in insertion order, which is the order of Object.entries.   *)

\* Number of foreign-key columns per table in the explored schemas.
MaxDeps == 2

CommentsId == <<"comments">>
OrdererNames == <<UsersId, PostsId, CommentsId>>

\* value.columns.map(v => v.fk?.split('.')[0])
\*      .filter(v => typeof v === 'string').filter(v => table != v)
RECURSIVE Dependencies(_, _)
Dependencies(table, columns) ==
    IF columns = <<>> THEN <<>>
    ELSE LET v == IF Head(columns).fk = None THEN None
                  ELSE Some(Split(Head(columns).fk[1])[1])
         IN  (IF v # None /\ table # v[1] THEN <<v[1]>> ELSE <<>>)
                 \o Dependencies(table, Tail(columns))

Entry(key) == CHOOSE i \in 1..Len(tables) : tables[i].key = key

\* dependencies[key]
DependenciesOf(key) == Dependencies(key, tables[Entry(key)].value.columns)

\* output.includes(dependency)
OutputIncludes(out, dependency) == \E i \in 1..Len(out) : out[i] = dependency

OrdererReadyAlways(out, d) == TRUE

\* d.every(dependency => output.includes(dependency))
OrdererReady(out, d) == \A i \in 1..Len(d) : OutputIncludes(out, d[i])

\* keys.splice(+i, 1), i counted from 0
Splice(s, i) == SubSeq(s, 1, i) \o SubSeq(s, i + 2, Len(s))

\* The statements of the SQL export name the tables of output that are not
\* views, in output order.
RECURSIVE CreateStatements(_)
CreateStatements(out) ==
    IF out = <<>> THEN <<>>
    ELSE (IF tables[Entry(Head(out))].value.is_view THEN <<>> ELSE <<Head(out)>>)
             \o CreateStatements(Tail(out))

\* The tables the dialogs are opened on.
ExportColumns(refs) ==
    <<Column("id", "uuid", TRUE, TRUE, None)>>
        \o [i \in 1..Len(refs) |->
               Column(refs[i][1], "uuid", FALSE, FALSE, Some(refs[i] \o <<Dot, "id">>))]

ExportTable(key, refs, isView) ==
    [title |-> key, schema |-> None, is_view |-> isView,
     columns |-> ExportColumns(refs), position |-> [x |-> 0, y |-> 0]]

SeqOfNames(S) == SelectSeq(OrdererNames, LAMBDA n : n \in S)
NameSet == {OrdererNames[i] : i \in 1..Len(OrdererNames)}

KeyOrders ==
    {q \in UNION {[1..n -> NameSet] : n \in 0..Len(OrdererNames)} :
        \A i, j \in 1..Len(q) : i # j => q[i] # q[j]}

RefSets == {S \in SUBSET NameSet : Cardinality(S) <= MaxDeps}

\* let keys = Object.keys(dependencies); const output = []
OrdererInit ==
    /\ StreamIdle
    /\ ThreadIdle
    /\ PanelIdle
    /\ RouteIdle
    /\ \E q \in KeyOrders, lastIsView \in BOOLEAN :
         \E refs \in [1..Len(q) -> RefSets] :
            /\ lastIsView => Len(q) > 0
            /\ tables = [i \in 1..Len(q) |->
                           [key |-> q[i],
                            value |-> ExportTable(q[i], SeqOfNames(refs[i]),
                                                  lastIsView /\ i = Len(q))]]
            /\ keys = q
    /\ output = <<>>
    /\ forI = 0
    /\ forN = 0
    /\ exportPc = "while"

\* while (keys.length)
OrdererWhile ==
    /\ exportPc = "while"
    /\ IF Len(keys) > 0
       THEN /\ exportPc' = "for"
            /\ forI' = 0
            /\ forN' = Len(keys)
       ELSE /\ exportPc' = "done"
            /\ UNCHANGED <<forI, forN>>
    /\ UNCHANGED <<tables, keys, output>>
    /\ UNCHANGED <<routeVars, streamVars, threadVars, panelVars>>

\* One iteration of for (let i in keys): an index removed from the array
\* before it is reached is not visited.
OrdererVisit ==
    /\ exportPc = "for"
    /\ forI < forN
    /\ forI' = forI + 1
    /\ IF forI < Len(keys) /\ OrdererReady(output, DependenciesOf(keys[forI + 1]))
       THEN /\ output' = Append(output, keys[forI + 1])
            /\ keys' = Splice(keys, forI)
       ELSE UNCHANGED <<keys, output>>
    /\ UNCHANGED <<tables, forN, exportPc>>
    /\ UNCHANGED <<routeVars, streamVars, threadVars, panelVars>>

\* the for loop has gone through the enumerated indices
OrdererForEnd ==
    /\ exportPc = "for"
    /\ forI = forN
    /\ exportPc' = "while"
    /\ UNCHANGED <<tables, keys, output, forI, forN>>
    /\ UNCHANGED <<routeVars, streamVars, threadVars, panelVars>>

OrdererNext == OrdererWhile \/ OrdererVisit \/ OrdererForEnd

OrdererSpec == OrdererInit /\ [][OrdererNext]_vars

\* The memo runs to its end unless its loop never ends.
OrdererFairSpec == OrdererSpec /\ WF_vars(OrdererNext)

-----------------------------------------------------------------------------
(* The UI message stream of the atomic-tool route: execute of              *)
(* createUIMessageStream, the progress interval and the agent's tool loop. *)
(* Everything execute does between two awaits is one step.                 *)

\* Number of tool invocations explored per streamed request.
MaxStreamCalls == 3

\* Number of createTable invocations at the start of a request in which the
\* model calls a tool at every step; its further steps call listSchemas.
MaxLoopCalls == 1

StreamCalls ==
    << [tool |-> "createTable",
        args |-> [tableId |-> UsersId, columns |-> <<IdIn, EmailIn>>]],
       [tool |-> "addColumn", args |-> [tableId |-> UsersId, column |-> NoteIn]],
       [tool |-> "alterColumn",
        args |-> [tableId |-> UsersId, columnName |-> "email",
                  patch |-> [format |-> "int4"]]],
       [tool |-> "dropColumn",
        args |-> [tableId |-> UsersId, columnName |-> "nonexistent"]],
       [tool |-> "getTableDetails", args |-> [tableId |-> UsersId]] >>

\* tools[toolName].execute(args)
ApplyTool(m, tool, args) ==
    CASE tool = "listSchemas" -> listSchemas(m, args)
      [] tool = "listTables" -> listTables(m, args)
      [] tool = "getTableDetails" -> getTableDetails(m, args)
      [] tool = "createTable" -> createTable(m, args)
      [] tool = "dropTable" -> dropTable(m, args)
      [] tool = "renameTable" -> renameTable(m, args)
      [] tool = "addColumn" -> addColumn(m, args)
      [] tool = "dropColumn" -> dropColumn(m, args)
      [] tool = "alterColumn" -> alterColumn(m, args)

\* The parts written by execute.  A data-tables-batch part holds the value
\* returned by cloneTables; completed is the number of tool invocations that
\* had returned when the part was written.
Notification(message, level) ==
    [type |-> "data-notification", message |-> message, level |-> level]

Progress(message, current, total) ==
    [type |-> "data-progress", message |-> message, current |-> current,
     total |-> total, phase |-> "processing"]

TablesBatch(id, tbls, batchNumber, isComplete) ==
    [type |-> "data-tables-batch", id |-> id, tables |-> tbls,
     batchNumber |-> batchNumber, isComplete |-> isComplete,
     completed |-> Len(steps)]

OperationHistoryPart(operations) ==
    [type |-> "data-operation-history", operations |-> operations,
     canUndo |-> Len(operations) > 0]

\* tables: cloneTables(schemaState)
SnapshotTablesLive(m) == [m |-> m, schema |-> m.schemaState]
SnapshotTables(m) == cloneTables(m, m.schemaState)

\* The interval's callback.  st is [m, last, written].
PollCallback(st) ==
    IF st.m.operationCount > st.last
    THEN LET c == SnapshotTables(st.m)
             n == st.m.operationCount
         IN  [m |-> c.m,
              last |-> n,
              written |-> st.written \o
                 << Progress(<<"Processing operation ", n, "...">>, n,
                             Max(st.m.totalOperations, n)),
                    TablesBatch(<<"tables-update-", n>>, c.schema, n, FALSE) >>]
    ELSE st

\* mutation of the remaining updates: written whether or not the counter
\* has advanced
RemainingUpdatesAlways(st) ==
    LET c == SnapshotTables(st.m)
        n == st.m.operationCount
    IN  [st EXCEPT
           !.m = c.m,
           !.written = @ \o
              << Progress(<<"Completed operation ", n>>, n, n),
                 TablesBatch(<<"tables-update-", n>>, c.schema, n, FALSE) >>]

\* Send any remaining updates
RemainingUpdates(st) ==
    IF st.m.operationCount > st.last
    THEN LET c == SnapshotTables(st.m)
             n == st.m.operationCount
         IN  [st EXCEPT
                !.m = c.m,
                !.written = @ \o
                   << Progress(<<"Completed operation ", n>>, n, n),
                      TablesBatch(<<"tables-update-", n>>, c.schema, n, FALSE) >>]
    ELSE st

\* Send final state
FinalState(st) ==
    IF st.m.operationCount > 0
    THEN LET c == SnapshotTables(st.m)
             n == st.m.operationCount
             tableCount == Cardinality(DOMAIN st.m.schemaState)
         IN  [st EXCEPT
                !.m = c.m,
                !.written = @ \o
                   << TablesBatch(<<"tables-final">>, c.schema, n + 1, TRUE),
                      Notification(<<"Completed ", n, " operations. ",
                                     tableCount, " tables in workspace.">>,
                                   "success") >>
                   \o (IF Len(st.m.operationHistory) > 0
                       THEN <<OperationHistoryPart(st.m.operationHistory)>>
                       ELSE <<>>)]
    ELSE st

StreamState == [m |-> Cur, last |-> lastStreamedOperationCount, written |-> written]

\* what a step of execute or of the interval leaves in the closure
StreamCommit(st) ==
    /\ tHeap' = st.m.tHeap
    /\ aHeap' = st.m.aHeap
    /\ lastStreamedOperationCount' = st.last
    /\ written' = st.written
    /\ pre' = Snapshot
    /\ UNCHANGED <<route, bodySchema, schemaState, operationCount, totalOperations,
                   operationHistory, aborted, steps>>
    /\ UNCHANGED <<exportVars, threadVars, panelVars>>

\* stopWhen: stepCountIs(50)
AgentMayStepOnceMore(n) == n < StepLimit + 1
AgentMayStep(n) == n < StepLimit

\* catch (error) { if (abortController.signal.aborted) ... else throw error }
SwallowsErrorNever(m) == FALSE
SwallowsError(m) == m.aborted

StreamInit == Init /\ route = "atomic"

\* execute is called: the first notification, then await agent.stream(...)
StreamExecute ==
    /\ route = "atomic"
    /\ streamPc = "idle"
    /\ streamPc' = "agentStream"
    /\ StreamCommit([StreamState EXCEPT !.written =
          Append(@, Notification(<<"Processing your request...">>, "info"))])
    /\ UNCHANGED <<intervalId, stepNumber, awaited>>

\* agent.stream(...) rejects: execute ends before the interval is set
AgentStreamRejects ==
    /\ streamPc = "agentStream"
    /\ streamPc' = "failed"
    /\ StreamCommit(StreamState)
    /\ UNCHANGED <<intervalId, stepNumber, awaited>>

\* agent.stream(...) resolves: setInterval, writer.merge, then await result.text
StreamSetup ==
    /\ streamPc = "agentStream"
    /\ intervalId' = TRUE
    /\ streamPc' = "awaitText"
    /\ StreamCommit(StreamState)
    /\ UNCHANGED <<stepNumber, awaited>>

\* agent.stream(...) resolves, setInterval, and result.toUIMessageStream or
\* writer.merge throws: the call is outside the try statement
StreamMergeThrows ==
    /\ streamPc = "agentStream"
    /\ intervalId' = TRUE
    /\ streamPc' = "failed"
    /\ StreamCommit(StreamState)
    /\ UNCHANGED <<stepNumber, awaited>>

\* the interval fires
Poll ==
    /\ intervalId
    /\ StreamCommit(PollCallback(StreamState))
    /\ UNCHANGED <<streamPc, intervalId, stepNumber, awaited>>

\* the agent takes a step and the tool it calls runs
AgentToolCall ==
    /\ streamPc = "awaitText"
    /\ AgentMayStep(stepNumber)
    /\ Len(steps) < MaxStreamCalls
    /\ stepNumber' = stepNumber + 1
    /\ \E i \in DOMAIN StreamCalls :
          CommitRoute(ApplyTool(Cur, StreamCalls[i].tool, StreamCalls[i].args),
                      StreamCalls[i].tool, StreamCalls[i].args)
    /\ UNCHANGED <<streamPc, intervalId, lastStreamedOperationCount, written, awaited>>
    /\ UNCHANGED <<exportVars, threadVars, panelVars>>

\* a step of an agent whose model calls a tool at every step; the read-only
\* invocations are counted and not logged in steps
AgentLoopStep ==
    /\ streamPc = "awaitText"
    /\ AgentMayStep(stepNumber)
    /\ stepNumber' = stepNumber + 1
    /\ IF Len(steps) < MaxLoopCalls
       THEN CommitRoute(ApplyTool(Cur, StreamCalls[1].tool, StreamCalls[1].args),
                        StreamCalls[1].tool, StreamCalls[1].args)
       ELSE LET r == ApplyTool(Cur, "listSchemas", ListSchemasArgs[1])
            IN  /\ tHeap' = r.m.tHeap
                /\ aHeap' = r.m.aHeap
                /\ schemaState' = r.m.schemaState
                /\ operationCount' = r.m.operationCount
                /\ totalOperations' = r.m.totalOperations
                /\ operationHistory' = r.m.operationHistory
                /\ pre' = Snapshot
                /\ UNCHANGED <<route, bodySchema, aborted, steps>>
    /\ UNCHANGED <<streamPc, intervalId, lastStreamedOperationCount, written, awaited>>
    /\ UNCHANGED <<exportVars, threadVars, panelVars>>

\* req.signal fires while the response is being produced
StreamAbort ==
    /\ streamPc \in {"agentStream", "awaitText"}
    /\ ~aborted
    /\ aborted' = TRUE
    /\ pre' = Snapshot
    /\ UNCHANGED <<route, tHeap, aHeap, bodySchema, schemaState, operationCount,
                   totalOperations, operationHistory, steps>>
    /\ UNCHANGED <<exportVars, streamVars, threadVars, panelVars>>

\* finally { clearInterval(intervalId) }, then the rest of execute
AfterAwait ==
    /\ intervalId' = FALSE
    /\ StreamCommit(FinalState(RemainingUpdates(StreamState)))
    /\ streamPc' = IF aborted THEN "cancelled" ELSE "completed"

\* the agent's loop has ended and result.text resolves
TextResolves ==
    /\ streamPc = "awaitText"
    /\ awaited' = "resolved"
    /\ AfterAwait
    /\ UNCHANGED stepNumber

\* result.text rejects
TextRejects ==
    /\ streamPc = "awaitText"
    /\ awaited' = "rejected"
    /\ IF SwallowsError(Cur)
       THEN AfterAwait
       ELSE /\ intervalId' = FALSE
            /\ streamPc' = "failed"
            /\ StreamCommit(StreamState)
    /\ UNCHANGED stepNumber

StreamNext ==
    \/ StreamExecute
    \/ AgentStreamRejects
    \/ StreamSetup
    \/ StreamMergeThrows
    \/ Poll
    \/ AgentToolCall
    \/ StreamAbort
    \/ TextResolves
    \/ TextRejects

StreamSpec == StreamInit /\ [][StreamNext]_vars

\* execute is run, agent.stream settles, and the agent either takes another
\* step or ends
AgentLoopNext ==
    \/ StreamExecute
    \/ AgentStreamRejects
    \/ StreamSetup
    \/ StreamMergeThrows
    \/ Poll
    \/ AgentLoopStep
    \/ StreamAbort
    \/ TextResolves
    \/ TextRejects

AgentLoopSpec == StreamInit /\ [][AgentLoopNext]_vars

\* execute is run, agent.stream settles, and the agent either takes another
\* step or ends
AgentLoopFairSpec ==
    /\ AgentLoopSpec
    /\ WF_vars(StreamExecute)
    /\ WF_vars(AgentStreamRejects \/ StreamSetup \/ StreamMergeThrows)
    /\ WF_vars(AgentLoopStep \/ TextResolves \/ TextRejects)

-----------------------------------------------------------------------------
(* The chat history hook (useChatHistory) *)
(* Times are held relative to Date.now(): a time in the future as the ms   *)
(* until it, a time in the past as the ms since it.                        *)

MaxThreadCalls == 4
MaxPendingSaves == 1

\* ignoreSavesUntilRef.current = Date.now() + 1000
GracePeriodMs == 1000

\* setTimeout(..., 500)
DebounceMs == 500

\* Date.now() is read twice a second
TickMs == DebounceMs

\* the roles of the messages of the conversations a caller passes
RoleLists ==
    { <<>>,
      <<"assistant">>,
      <<"user">>,
      <<"user", "assistant">> }

\* The conversations the chat runtime may hold: that of a thread created so
\* far, which it keeps until it is reset, or one begun without a thread.
Conversations ==
    IF nextThreadId = 1 THEN {None}
    ELSE {Some(t) : t \in 1..(nextThreadId - 1)}

\* The ThreadMessage[] values a caller passes: each message with its role and
\* the thread in whose conversation it was sent.
ThreadMessageLists ==
    {[i \in DOMAIN roles |-> [role |-> roles[i], thread |-> t]] :
        roles \in RoleLists, t \in Conversations}

\* messages.filter((m) => m.role === 'user')
UserMessages(messages) == SelectSeq(messages, LAMBDA msg : msg.role = "user")

\* generateThreadTitle(firstContent): the title is made of the first user
\* message, which is named here by its position
TitleOf(messages) ==
    CHOOSE i \in 1..Len(messages) :
        /\ messages[i].role = "user"
        /\ \A j \in 1..(i - 1) : messages[j].role # "user"

\* the test of the user messages left out
NoUserMessageNever(messages) == FALSE

\* userMessages.length === 0
NoUserMessage(messages) == Len(UserMessages(messages)) = 0

\* the test of the ignore period left out
InIgnorePeriodNever == FALSE

\* Date.now() < ignoreSavesUntilRef.current
InIgnorePeriod == ignoreSavesUntilRef > 0

\* The branch by which saveCurrentThread(messages, provider, model) ends
\* when the callback sees threadId as currentThreadId.
SaveOutcome(threadId, messages) ==
    IF threadId = None \/ Len(messages) = 0 THEN "noThreadOrEmpty"
    ELSE IF InIgnorePeriod THEN "ignored"
    ELSE IF NoUserMessage(messages) THEN "noUserMessage"
    ELSE IF /\ lastSavedStateRef.threadId = threadId
            /\ lastSavedStateRef.messageCount = Len(messages)
         THEN "duplicate"
    ELSE IF /\ lastSavedStateRef.threadId # None
            /\ lastSavedStateRef.threadId # threadId
            /\ lastSavedStateRef.messageCount > 0
            /\ Len(messages) <= lastSavedStateRef.messageCount
         THEN "stale"
    ELSE "scheduled"

\* the calls of createNewThread, and of saveCurrentThread that set the timer,
\* so far
ThreadCalls == (nextThreadId - 1) + timersSet

ThreadInit ==
    /\ ExportIdle
    /\ StreamIdle
    /\ ThreadIdle
    /\ PanelIdle
    /\ RouteIdle

\* createNewThread(); generateThreadId gives an id no thread had before
CreateNewThread ==
    /\ ThreadCalls < MaxThreadCalls
    /\ nextThreadId' = nextThreadId + 1
    /\ currentThreadId' = Some(nextThreadId)
    /\ lastSavedStateRef' = [threadId |-> Some(nextThreadId),
                             messageCount |-> 0]
    /\ ignoreSavesUntilRef' = GracePeriodMs
    /\ createdAgo' = Append(createdAgo, 0)
    /\ lastCall' = None
    /\ UNCHANGED <<renderedThreadId, saveTimeoutRef, pendingSaves, db,
                   lastWrites>>
    /\ UNCHANGED <<timersSet, deleted, routeVars, exportVars, streamVars,
                   panelVars>>

\* loadThread(id) of a stored thread: setCurrentThreadId(id)
LoadThread ==
    /\ \E id \in DOMAIN db :
         /\ currentThreadId # Some(id)
         /\ currentThreadId' = Some(id)
    /\ lastCall' = None
    /\ UNCHANGED <<nextThreadId, renderedThreadId, lastSavedStateRef,
                   ignoreSavesUntilRef, saveTimeoutRef, pendingSaves, db,
                   createdAgo, lastWrites>>
    /\ UNCHANGED <<timersSet, deleted, routeVars, exportVars, streamVars,
                   panelVars>>

\* React renders again: useCallback makes the callbacks anew with the
\* currentThreadId that was set
Render ==
    /\ renderedThreadId # currentThreadId
    /\ renderedThreadId' = currentThreadId
    /\ lastCall' = None
    /\ UNCHANGED <<nextThreadId, currentThreadId, lastSavedStateRef,
                   ignoreSavesUntilRef, saveTimeoutRef, pendingSaves, db,
                   createdAgo, lastWrites>>
    /\ UNCHANGED <<timersSet, deleted, routeVars, exportVars, streamVars,
                   panelVars>>

\* saveCurrentThread(messages, provider, model), up to its return
SaveCurrentThread ==
    /\ \E messages \in ThreadMessageLists :
         LET threadIdToSave == renderedThreadId
             outcome == SaveOutcome(renderedThreadId, messages)
         IN  /\ lastSavedStateRef' =
                   IF outcome = "stale"
                   THEN [threadId |-> threadIdToSave, messageCount |-> 0]
                   ELSE lastSavedStateRef
             \* clearTimeout(saveTimeoutRef.current); setTimeout(..., 500)
             /\ saveTimeoutRef' =
                   IF outcome = "scheduled"
                   THEN Some([due |-> DebounceMs,
                              threadIdToSave |-> threadIdToSave[1],
                              messages |-> messages])
                   ELSE saveTimeoutRef
             /\ outcome = "scheduled" => ThreadCalls < MaxThreadCalls
             /\ timersSet' = IF outcome = "scheduled" THEN timersSet + 1
                             ELSE timersSet
             /\ lastCall' = Some([threadId |-> renderedThreadId,
                                  messages |-> messages,
                                  outcome |-> outcome,
                                  timerBefore |-> saveTimeoutRef])
    /\ deleted' = {}
    /\ UNCHANGED <<nextThreadId, currentThreadId, renderedThreadId,
                   ignoreSavesUntilRef, pendingSaves, db, createdAgo,
                   lastWrites>>
    /\ UNCHANGED <<routeVars, exportVars, streamVars, panelVars>>

\* The debounce timer fires, at the time it is due or later, and its
\* callback runs up to await getThread.  The handle of a timer that has fired
\* is cleared here: clearTimeout of it does nothing.
TimerFires ==
    /\ Len(pendingSaves) < MaxPendingSaves
    /\ saveTimeoutRef # None
    /\ saveTimeoutRef[1].due = 0
    /\ pendingSaves' = Append(pendingSaves,
                              [awaiting |-> "getThread",
                               threadIdToSave |-> saveTimeoutRef[1].threadIdToSave,
                               messages |-> saveTimeoutRef[1].messages,
                               existingThread |-> None])
    /\ saveTimeoutRef' = None
    /\ lastCall' = None
    /\ UNCHANGED <<nextThreadId, currentThreadId, renderedThreadId,
                   lastSavedStateRef, ignoreSavesUntilRef, db, createdAgo,
                   lastWrites>>
    /\ UNCHANGED <<timersSet, deleted, routeVars, exportVars, streamVars,
                   panelVars>>

\* await getThread(threadIdToSave) resolves; the callback runs up to
\* await saveThread(thread)
GetThreadResolves ==
    /\ \E i \in DOMAIN pendingSaves :
         /\ pendingSaves[i].awaiting = "getThread"
         /\ pendingSaves' =
               [pendingSaves EXCEPT
                  ![i].awaiting = "saveThread",
                  \* of existingThread the callback uses title and createdAt
                  ![i].existingThread =
                      IF pendingSaves[i].threadIdToSave \in DOMAIN db
                      THEN Some([title |->
                                   db[pendingSaves[i].threadIdToSave].title])
                      ELSE None]
    /\ lastCall' = None
    /\ UNCHANGED <<nextThreadId, currentThreadId, renderedThreadId,
                   lastSavedStateRef, ignoreSavesUntilRef, saveTimeoutRef, db,
                   createdAgo, lastWrites>>
    /\ UNCHANGED <<timersSet, deleted, routeVars, exportVars, streamVars,
                   panelVars>>

\* the ChatThread the timer callback builds
ThreadOf(p) ==
    [id |-> p.threadIdToSave,
     title |-> IF p.existingThread # None
               THEN p.existingThread[1].title
               ELSE TitleOf(p.messages),
     messages |-> p.messages,
     totalMessages |-> Len(p.messages)]

\* s without its i-th element
WithoutIndex(s, i) == SubSeq(s, 1, i - 1) \o SubSeq(s, i + 1, Len(s))

\* the last write of ws and write w after it
LastTwo(ws, w) == IF ws = <<>> THEN <<w>> ELSE <<Last(ws), w>>

\* await saveThread(thread) resolves: the thread is stored and the tracker
\* of the saved state is updated
SaveThreadResolves ==
    /\ \E i \in DOMAIN pendingSaves :
         LET p == pendingSaves[i]
         IN  /\ p.awaiting = "saveThread"
             /\ db' = (p.threadIdToSave :> ThreadOf(p)) @@ db
             /\ lastSavedStateRef' = [threadId |-> Some(p.threadIdToSave),
                                      messageCount |-> Len(p.messages)]
             /\ pendingSaves' = WithoutIndex(pendingSaves, i)
             /\ lastWrites' = LastTwo(lastWrites,
                                      [threadId |-> p.threadIdToSave,
                                       messageCount |-> Len(p.messages)])
    /\ lastCall' = None
    /\ UNCHANGED <<nextThreadId, currentThreadId, renderedThreadId,
                   ignoreSavesUntilRef, saveTimeoutRef, createdAgo>>
    /\ UNCHANGED <<timersSet, deleted, routeVars, exportVars, streamVars,
                   panelVars>>

\* ms less ms, a time that has come staying at 0
TimeLeft(ms) == IF ms > TickMs THEN ms - TickMs ELSE 0

\* ms more ms, a thread older than the grace period staying at its length
TimeSince(ms) ==
    IF ms + TickMs < GracePeriodMs THEN ms + TickMs ELSE GracePeriodMs

\* time passes: Date.now() is TickMs later
Tick ==
    /\ ignoreSavesUntilRef' = TimeLeft(ignoreSavesUntilRef)
    /\ saveTimeoutRef' =
          IF saveTimeoutRef = None THEN None
          ELSE Some([saveTimeoutRef[1] EXCEPT !.due = TimeLeft(@)])
    /\ createdAgo' = [id \in DOMAIN createdAgo |-> TimeSince(createdAgo[id])]
    /\ lastCall' = None
    /\ UNCHANGED <<nextThreadId, currentThreadId, renderedThreadId,
                   lastSavedStateRef, pendingSaves, db, lastWrites>>
    /\ UNCHANGED <<timersSet, deleted, routeVars, exportVars, streamVars,
                   panelVars>>

ThreadNext ==
    \/ CreateNewThread
    \/ LoadThread
    \/ Render
    \/ SaveCurrentThread
    \/ TimerFires
    \/ GetThreadResolves
    \/ SaveThreadResolves
    \/ Tick

ThreadSpec == ThreadInit /\ [][ThreadNext]_vars

\* db without the threads of ids
WithoutThreads(ids) == [id \in DOMAIN db \ ids |-> db[id]]

\* deleteThread(id) of a stored thread, up to its end: dbDeleteThread,
\* refreshThreads, and setCurrentThreadId(null) if the callback sees id as
\* the current thread
DeleteThreadAction ==
    /\ \E id \in DOMAIN db :
         /\ db' = WithoutThreads({id})
         /\ deleted' = deleted \cup {id}
         /\ currentThreadId' = IF Some(id) = renderedThreadId THEN None
                               ELSE currentThreadId
    /\ lastCall' = None
    /\ UNCHANGED <<nextThreadId, renderedThreadId, lastSavedStateRef,
                   ignoreSavesUntilRef, saveTimeoutRef, pendingSaves,
                   createdAgo, lastWrites>>
    /\ UNCHANGED <<timersSet, routeVars, exportVars, streamVars, panelVars>>

\* clearHistory() with threads in the store, up to its end: clearAllThreads
\* and setCurrentThreadId(null)
ClearHistory ==
    /\ DOMAIN db # {}
    /\ db' = WithoutThreads(DOMAIN db)
    /\ deleted' = deleted \cup DOMAIN db
    /\ currentThreadId' = None
    /\ lastCall' = None
    /\ UNCHANGED <<nextThreadId, renderedThreadId, lastSavedStateRef,
                   ignoreSavesUntilRef, saveTimeoutRef, pendingSaves,
                   createdAgo, lastWrites>>
    /\ UNCHANGED <<timersSet, routeVars, exportVars, streamVars, panelVars>>

\* the hook with its threads deleted as well
DeletionNext ==
    \/ ThreadNext
    \/ DeleteThreadAction
    \/ ClearHistory

DeletionSpec == ThreadInit /\ [][DeletionNext]_vars

-----------------------------------------------------------------------------
(* The SQL panel of the schema sidebar (SchemaSidebarSql) *)

\* the value of the Select that stands for the whole schema
AllTables == "__all__"

PanelKeys == {"users", "posts"}

\* a Table of the store or of a parse result, by where its columns come from
PanelTable(key, columns, position) ==
    [title |-> key, columns |-> columns, position |-> position]

\* the tables the store may hold when the panel is mounted
StoredTableStates ==
    {[k \in K |-> PanelTable(k, "stored", Some(<<"of", k>>))] :
        K \in SUBSET PanelKeys}

StoredEnumTypes == {<<>>, [n \in {"mood"} |-> "stored"]}

\* parseSchemaSQL(sql): what the parser may return for the text of the editor
ParseResults ==
    [error : {None, Some("unbalanced parentheses")},
     tables : {[k \in K |-> PanelTable(k, "parsed", None)] :
                  K \in SUBSET PanelKeys},
     enumTypes : {<<>>, [n \in {"mood"} |-> "parsed"]}]

\* updateTablesFromAI(tables, { enumTypes }): the store takes the whole state
updateTablesFromAI(newTables, newEnumTypes) ==
    [tables |-> newTables, enumTypes |-> newEnumTypes, called |-> TRUE]

\* handleApply returns before it calls updateTablesFromAI
RejectApply(message) ==
    [tables |-> storeTables, enumTypes |-> storeEnumTypes, called |-> FALSE,
     selectedTable |-> selectedTable, error |-> Some(message)]

\* the test of the number of tables left out
TooManyTablesNever(n) == FALSE

\* parsedTables.length > 1
TooManyTables(n) == n > 1

\* { ...a, ...b }
Spread(a, b) ==
    [k \in DOMAIN a \cup DOMAIN b |-> IF k \in DOMAIN b THEN b[k] ELSE a[k]]

\* handleApply with a single table selected and tables in the parse result
ApplyToSelected(result) ==
    LET \* const [newKey, newTable] = parsedTables[0]
        newKey == CHOOSE k \in DOMAIN result.tables : TRUE
        newTable == result.tables[newKey]
        kept == DOMAIN storeTables \ {selectedTable}
        preservedPosition ==
            IF selectedTable \in DOMAIN storeTables
               /\ storeTables[selectedTable].position # None
            THEN storeTables[selectedTable].position
            ELSE IF newTable.position # None THEN newTable.position
            ELSE Some("origin")
        nextTables ==
            [k \in kept \cup {newKey} |->
                IF k = newKey
                THEN [newTable EXCEPT !.position = preservedPosition]
                ELSE storeTables[k]]
        mergedEnums == Spread(storeEnumTypes, result.enumTypes)
        u == updateTablesFromAI(nextTables, mergedEnums)
    IN  [tables |-> u.tables, enumTypes |-> u.enumTypes, called |-> u.called,
         selectedTable |-> newKey, error |-> None]

\* handleApply for the parse result of the text of the editor
ApplyResult(result) ==
    LET hasTables == Cardinality(DOMAIN result.tables) > 0
        hasEnums == Cardinality(DOMAIN result.enumTypes) > 0
    IN  IF result.error # None THEN RejectApply(result.error[1])
        ELSE IF ~hasTables /\ ~hasEnums
        THEN RejectApply("No schema definitions detected")
        ELSE IF selectedTable = AllTables
        THEN LET u == updateTablesFromAI(result.tables, result.enumTypes)
             IN  [tables |-> u.tables, enumTypes |-> u.enumTypes,
                  called |-> u.called,
                  selectedTable |-> selectedTable, error |-> None]
        ELSE IF Cardinality(DOMAIN result.tables) = 0
        THEN RejectApply("Provide SQL for the selected table")
        ELSE IF TooManyTables(Cardinality(DOMAIN result.tables))
        THEN RejectApply("Multiple tables detected. Use Whole schema mode instead.")
        ELSE ApplyToSelected(result)

\* the panel is mounted on a store
SidebarInit ==
    /\ ExportIdle
    /\ StreamIdle
    /\ ThreadIdle
    /\ storeTables \in StoredTableStates
    /\ storeEnumTypes \in StoredEnumTypes
    /\ selectedTable = AllTables
    /\ error = None
    /\ lastApply = None
    /\ CallIdle
    /\ RouteIdle

\* The user chooses an entry of the Select; the effect that follows sets the
\* text of the editor and clears the message.
SelectTable ==
    /\ \E k \in DOMAIN storeTables \cup {AllTables} :
         /\ k # selectedTable
         /\ selectedTable' = k
    /\ error' = None
    /\ lastApply' = None
    /\ UNCHANGED <<storeTables, storeEnumTypes>>
    /\ UNCHANGED <<routeVars, exportVars, streamVars, threadVars, callVars>>

\* the user presses Apply: handleApply and the effect that follows it
HandleApply ==
    /\ \E result \in ParseResults :
         LET r == ApplyResult(result)
         IN  /\ storeTables' = r.tables
             /\ storeEnumTypes' = r.enumTypes
             /\ selectedTable' = r.selectedTable
             /\ error' = r.error
             /\ lastApply' = Some([result |-> result,
                                   tables |-> storeTables,
                                   enumTypes |-> storeEnumTypes,
                                   selectedTable |-> selectedTable,
                                   called |-> r.called])
    /\ UNCHANGED <<routeVars, exportVars, streamVars, threadVars, callVars>>

SidebarNext ==
    \/ SelectTable
    \/ HandleApply

SidebarSpec == SidebarInit /\ [][SidebarNext]_vars

-----------------------------------------------------------------------------
(* normaliseColumn of the two routes, taken by itself *)

\* the optional fields of columnInputSchema
OptionalFields ==
    {"type", "format", "default", "required", "pk", "fk", "enumValues",
     "enumTypeName", "comment"}

\* the values a field of a column input may have
FieldValues(f) ==
    CASE f = "title" -> {"email"}
      [] f = "type" -> {"string", "varchar"}
      [] f = "format" -> {"string", "text"}
      [] f = "default" -> {"''"}
      [] f = "required" -> BOOLEAN
      [] f = "pk" -> BOOLEAN
      [] f = "fk" -> {"users.id"}
      [] f = "enumValues" -> {<<"a", "b">>}
      [] f = "enumTypeName" -> {"mood"}
      [] f = "comment" -> {"the address"}

\* a field of a column input: left out, or supplied with one of its values
Supplied(f) == {[x \in {} |-> x]} \cup {f :> v : v \in FieldValues(f)}

\* the inputs columnInputSchema accepts: a title and any of the optional fields
ColumnInputs ==
    {("title" :> t) @@ ty @@ fo @@ de @@ re @@ pk @@ fk @@ ev @@ en @@ co :
        t \in FieldValues("title"),
        ty \in Supplied("type"), fo \in Supplied("format"),
        de \in Supplied("default"), re \in Supplied("required"),
        pk \in Supplied("pk"), fk \in Supplied("fk"),
        ev \in Supplied("enumValues"), en \in Supplied("enumTypeName"),
        co \in Supplied("comment")}

NormaliseInit ==
    /\ ExportIdle
    /\ StreamIdle
    /\ ThreadIdle
    /\ SidebarIdle
    /\ argument \in ColumnInputs
    /\ returned = None
    /\ RouteIdle

\* the atomic-tool route with the precedence of the legacy route
NormaliseAtomicAsLegacy ==
    /\ returned = None
    /\ returned' = Some([route |-> "atomic",
                         column |-> legacyNormaliseColumn(argument)])
    /\ UNCHANGED <<argument, routeVars, exportVars, streamVars, threadVars,
                   sidebarVars>>

\* normaliseColumn(col) of the atomic-tool route
NormaliseAtomic ==
    /\ returned = None
    /\ returned' = Some([route |-> "atomic",
                         column |-> normaliseColumn(argument)])
    /\ UNCHANGED <<argument, routeVars, exportVars, streamVars, threadVars,
                   sidebarVars>>

\* the legacy route with the defaults of the atomic-tool route
NormaliseLegacyAsAtomic ==
    /\ returned = None
    /\ returned' = Some([route |-> "legacy",
                         column |-> normaliseColumn(argument)])
    /\ UNCHANGED <<argument, routeVars, exportVars, streamVars, threadVars,
                   sidebarVars>>

\* normaliseColumn(input) of the legacy route
NormaliseLegacy ==
    /\ returned = None
    /\ returned' = Some([route |-> "legacy",
                         column |-> legacyNormaliseColumn(argument)])
    /\ UNCHANGED <<argument, routeVars, exportVars, streamVars, threadVars,
                   sidebarVars>>

NormaliseNext ==
    \/ NormaliseAtomic
    \/ NormaliseLegacy

NormaliseSpec == NormaliseInit /\ [][NormaliseNext]_vars

-----------------------------------------------------------------------------
(* The column emission of the SQL export (ModalSQL in HelperZoom.tsx),    *)
(* taken by itself.  The text of a column is held as its parts: the title *)
(* and whether it is quoted, the data format, the references clause and   *)
(* the list of the clauses that follow, in the order they are appended.   *)

reservedKeyword ==
    {"user", "database", "default", "dictionary", "files", "group", "index",
     "level", "max", "min", "password", "procedure", "table", "view"}

EmittedTitles == {"email", "user"}
EmittedFormats == {"date", "timestamp", "timestamptz", "uuid", "integer", "text"}
EmittedFks == {None, Some(""), Some("users.id")}

\* v.format.includes('timestamp'), over EmittedFormats
IncludesTimestamp(format) == format \in {"timestamp", "timestamptz"}

\* if (v.fk): a missing and an empty fk are falsy
HasFk(v) == v.fk # None /\ v.fk[1] # ""

EmittedColumns ==
    [title : EmittedTitles, format : EmittedFormats, required : BOOLEAN,
     pk : BOOLEAN, fk : EmittedFks]

\* mutation of the test of not null: the fk is not looked at
RequiredNotFkAnyFk(v) == v.required

\* v.required && !v.fk
RequiredNotFk(v) == v.required /\ ~HasFk(v)

\* the clauses appended to a column after its references clause
ColumnClauses(v) ==
    (IF v.format = "date" \/ IncludesTimestamp(v.format)
     THEN <<"default now()">> ELSE <<>>)
    \o (IF v.required /\ v.format = "uuid" /\ ~HasFk(v)
        THEN <<"default uuid_generate_v4()">>
        ELSE IF RequiredNotFk(v) THEN <<"not null">> ELSE <<>>)
    \o (IF v.pk THEN <<"primary key">> ELSE <<>>)

\* the text emitted for one column
ColumnSQL(v) ==
    [title |-> v.title,
     quoted |-> v.title \in reservedKeyword,
     format |-> IF v.format = "integer" /\ v.pk THEN "serial" ELSE v.format,
     references |-> IF HasFk(v) THEN v.fk ELSE None,
     clauses |-> ColumnClauses(v)]

GeneratorInit ==
    /\ ExportIdle
    /\ StreamIdle
    /\ ThreadIdle
    /\ SidebarIdle
    /\ argument \in EmittedColumns
    /\ returned = None
    /\ RouteIdle

\* value.columns.forEach: one column is emitted
EmitColumn ==
    /\ returned = None
    /\ returned' = Some(ColumnSQL(argument))
    /\ UNCHANGED <<argument, routeVars, exportVars, streamVars, threadVars,
                   sidebarVars>>

GeneratorNext == EmitColumn

GeneratorSpec == GeneratorInit /\ [][GeneratorNext]_vars

-----------------------------------------------------------------------------
(* The SQL of the schema sidebar (generateSchemaSQL and parseSchemaSQL of  *)
(* lib/schema-sql), taken by itself.  The SQL text is held as the list of  *)
(* its create table statements, each with the texts of its columns.  The   *)
(* schemas have no enum types and no column defaults of their own.         *)

RoundTripKey == "users"
RoundTripFormats == {"integer", "uuid", "text", "date"}

\* a column as createTable stores it when one designator is supplied
RoundTripColumns ==
    {[title |-> t, type |-> f, format |-> f, required |-> r, pk |-> p,
      fk |-> k, default |-> None] :
        t \in EmittedTitles, f \in RoundTripFormats, r \in BOOLEAN,
        p \in BOOLEAN, k \in {None, Some("users.id")}}

\* a TableState of one table or view with one column, without its position
RoundTripTables ==
    {<<[key |-> RoundTripKey,
        value |-> [title |-> RoundTripKey, is_view |-> v, columns |-> <<c>>]]>> :
        v \in BOOLEAN, c \in RoundTripColumns}

\* generateSchemaSQL(tables, enumTypes): views are skipped
generateSchemaSQL(state) ==
    LET emitted == SelectSeq(state, LAMBDA e : ~e.value.is_view)
    IN  [i \in 1..Len(emitted) |->
            [table |-> emitted[i].key,
             columns |-> [j \in 1..Len(emitted[i].value.columns) |->
                             ColumnSQL(emitted[i].value.columns[j])]]]

HasClause(c, clause) == \E i \in 1..Len(c.clauses) : c.clauses[i] = clause

\* a column of a create table statement read back: name, type, inline
\* primary key, not null, default and references
parseColumnSQL(c) ==
    [title |-> c.title,
     type |-> c.format,
     format |-> c.format,
     required |-> HasClause(c, "not null"),
     pk |-> HasClause(c, "primary key"),
     fk |-> c.references,
     default |-> IF HasClause(c, "default now()") THEN Some("now()")
                 ELSE IF HasClause(c, "default uuid_generate_v4()")
                      THEN Some("uuid_generate_v4()")
                 ELSE None]

\* parseSchemaSQL(text) on text that generateSchemaSQL has written
parseSchemaSQL(sql) ==
    [error |-> None,
     tables |-> [i \in 1..Len(sql) |->
                    [key |-> sql[i].table,
                     value |-> [title |-> sql[i].table, is_view |-> FALSE,
                                columns |-> [j \in 1..Len(sql[i].columns) |->
                                                parseColumnSQL(sql[i].columns[j])]]]]]

RoundTripInit ==
    /\ ExportIdle
    /\ StreamIdle
    /\ ThreadIdle
    /\ SidebarIdle
    /\ argument \in RoundTripTables
    /\ returned = None
    /\ RouteIdle

\* setSql(generateSchemaSQL(tables, enumTypes))
GenerateSchemaSQL ==
    /\ returned = None
    /\ returned' = Some([sql |-> generateSchemaSQL(argument), result |-> None])
    /\ UNCHANGED <<argument, routeVars, exportVars, streamVars, threadVars,
                   sidebarVars>>

\* const result = parseSchemaSQL(sql)
ParseSchemaSQL ==
    /\ returned # None
    /\ returned[1].result = None
    /\ returned' = Some([returned[1] EXCEPT
                            !.result = Some(parseSchemaSQL(returned[1].sql))])
    /\ UNCHANGED <<argument, routeVars, exportVars, streamVars, threadVars,
                   sidebarVars>>

RoundTripNext ==
    \/ GenerateSchemaSQL
    \/ ParseSchemaSQL

RoundTripSpec == RoundTripInit /\ [][RoundTripNext]_vars

-----------------------------------------------------------------------------
(* Vocabulary of the properties of the export dialogs *)

TableKeys == {tables[i].key : i \in 1..Len(tables)}

\* key has a column whose fk names the table dep
References(key, dep) ==
    \E i \in 1..Len(DependenciesOf(key)) : DependenciesOf(key)[i] = dep

\* a path of at most n foreign keys leads from table a to table b
RECURSIVE ReachesIn(_, _, _)
ReachesIn(a, b, n) ==
    /\ n > 0
    /\ \/ References(a, b)
       \/ \E c \in TableKeys : References(a, c) /\ ReachesIn(c, b, n - 1)

FkCycle == \E k \in TableKeys : ReachesIn(k, k, Len(tables))

\* every fk names a table of the schema
FkClosed == \A k \in TableKeys : \A d \in NameSet : References(k, d) => d \in TableKeys

PositionIn(s, x) == CHOOSE i \in 1..Len(s) : s[i] = x

-----------------------------------------------------------------------------
(* C11: the order computed by the dependency orderer never places a table  *)
(* before a table one of its columns' fk references, lists no table twice, *)
(* and when the loop ends lists every table key exactly once; on a schema  *)
(* whose fk graph is acyclic and whose references all name tables of the   *)
(* schema every pass of the loop orders at least one table, so the loop    *)
(* ends.  The create table statements follow the same order.               *)
OrderRespectsForeignKeys ==
    /\ \A p \in 1..Len(output) :
          /\ output[p] \in TableKeys
          /\ \A q \in 1..Len(output) : output[q] = output[p] => q = p
          /\ \A d \in NameSet :
                References(output[p], d) => \E q \in 1..(p - 1) : output[q] = d
    /\ exportPc # "idle" =>
          /\ {output[p] : p \in 1..Len(output)} \cup {keys[i] : i \in 1..Len(keys)}
                = TableKeys
          /\ Len(output) + Len(keys) = Len(tables)
    /\ exportPc = "done" =>
          /\ Len(output) = Len(tables)
          /\ {output[p] : p \in 1..Len(output)} = TableKeys
          /\ LET code == CreateStatements(output)
             IN  \A a, b \in 1..Len(code) :
                    References(code[a], code[b]) => b < a
    /\ (~FkCycle /\ FkClosed /\ exportPc = "for" /\ forI = forN) => Len(keys) < forN

\* posts was created before users and references users.id: the export is
\* finished and create table users comes before create table posts.
OrderWitness ==
    /\ exportPc = "done"
    /\ Len(tables) = 2
    /\ tables[1].key = PostsId
    /\ tables[2].key = UsersId
    /\ References(PostsId, UsersId)
    /\ CreateStatements(output) = <<UsersId, PostsId>>

-----------------------------------------------------------------------------
(* C12: when the schema contains a foreign-key cycle, the dependency       *)
(* orderer terminates and fails with a CyclicDependencyError.              *)
CycleGuard == FkCycle ~> (exportPc = "CyclicDependencyError")

-----------------------------------------------------------------------------
(* Vocabulary of the properties of the stream *)

Streaming == streamPc \in {"agentStream", "awaitText"}
Terminal == streamPc \in {"completed", "cancelled", "failed"}

\* the data-tables-batch parts among the written parts
IsTablesBatch(part) == part.type = "data-tables-batch"

-----------------------------------------------------------------------------
(* C13: every chat request moves from Idle to Streaming and from Streaming *)
(* to exactly one of Completed, Cancelled, Failed, where it stays; the     *)
(* agent takes at most 50 steps, and the request reaches a terminal state  *)
(* even when the model calls a tool at every step.                         *)
RequestTerminates ==
    /\ [](stepNumber <= StepLimit)
    /\ [][/\ streamPc = "idle" => streamPc' \in {"idle", "agentStream"}
          /\ Streaming =>
                streamPc' \in {"agentStream", "awaitText", "completed",
                               "cancelled", "failed"}
          /\ Terminal => streamPc' = streamPc]_vars
    /\ <>[]Terminal

\* the model called a tool at each of the 50 steps and the request completed
StepLimitWitness ==
    /\ streamPc = "completed"
    /\ stepNumber = StepLimit
    /\ Len(steps) = MaxLoopCalls

-----------------------------------------------------------------------------
(* C14: once the progress interval has been created it is cleared on every *)
(* path by which execute ends, so no poll callback can run after the       *)
(* request has reached a terminal state.                                   *)
TimerTornDown == Terminal => ~intervalId

-----------------------------------------------------------------------------
(* C15: in every request in which at least one operation occurred, once    *)
(* streaming has ended (completed, cancelled or failed) a data-tables-batch *)
(* part with isComplete true holding the final working schema and a        *)
(* completion notification have been written, and the operation history    *)
(* has been written once, as the last part.                                *)
FinalEmission ==
    (Terminal /\ Len(operationHistory) > 0) =>
       /\ \E i \in 1..Len(written) :
             /\ IsTablesBatch(written[i])
             /\ written[i].isComplete
             /\ SchemaVal(Cur, written[i].tables) = Tables
             /\ \A j \in 1..Len(written) :
                   (IsTablesBatch(written[j]) /\ written[j].isComplete) => j = i
       /\ \E i \in 1..Len(written) :
             /\ written[i].type = "data-notification"
             /\ written[i].level = "success"
       /\ Last(written).type = "data-operation-history"
       /\ HistoryVal([Cur EXCEPT !.operationHistory = Last(written).operations]) = History
       /\ \A j \in 1..Len(written) :
             written[j].type = "data-operation-history" => j = Len(written)

-----------------------------------------------------------------------------
(* C16: however the progress poll interleaves with the tool invocations,   *)
(* each data-tables-batch part holds the working schema as it was after a  *)
(* whole number of completed invocations, namely all those that had        *)
(* returned when the part was written.                                     *)

\* the closure after the invocations ss, starting from the closure m
RECURSIVE Replay(_, _)
Replay(m, ss) ==
    IF ss = <<>> THEN m
    ELSE Replay(IF Head(ss).result = Cancelled THEN m
                ELSE ApplyTool(m, Head(ss).tool, Head(ss).args).m,
                Tail(ss))

\* the working schema after the first k invocations of the request
SchemaAfter(k) ==
    LET c == cloneTables([EmptyMachine EXCEPT !.tHeap = tHeap, !.aHeap = aHeap],
                         bodySchema)
        m == Replay([c.m EXCEPT !.schemaState = c.schema], SubSeq(steps, 1, k))
    IN  SchemaVal(m, m.schemaState)

SnapshotsAreWholeStates ==
    /\ \A i \in 1..Len(written) :
          IsTablesBatch(written[i]) =>
             /\ written[i].completed <= Len(steps)
             /\ SchemaVal(Cur, written[i].tables) = SchemaAfter(written[i].completed)
    /\ (Len(written) > pre.nwritten /\ IsTablesBatch(Last(written))) =>
          /\ Last(written).completed = Len(steps)
          /\ SchemaVal(Cur, Last(written).tables) = Tables

\* a snapshot written by the poll between two invocations: it holds the
\* table created by the first and not the column added by the second
SnapshotWitness ==
    /\ Len(steps) = 2
    /\ steps[1].tool = "createTable"
    /\ steps[2].tool = "addColumn"
    /\ IsOk(steps[2].result)
    /\ \E i \in 1..Len(written) :
          /\ IsTablesBatch(written[i])
          /\ ~written[i].isComplete
          /\ written[i].completed = 1
          /\ SchemaVal(Cur, written[i].tables) # Tables

-----------------------------------------------------------------------------
(* C17: the schema supplied in the request body is never changed; every    *)
(* snapshot written to the client and every table value returned to the    *)
(* client as a tool result is a clone, so that later tool invocations do   *)
(* not change it.                                                          *)
BodySchemaUnchanged ==
    /\ \E i \in DOMAIN BodySchemas : BodyTables = BodySchemas[i]
    /\ bodySchema = pre.bodySchema
    /\ BodyTables = SchemaVal(pre, pre.bodySchema)

WrittenSnapshotsUnchanged ==
    \A i \in 1..Len(written) :
       IsTablesBatch(written[i]) =>
          SchemaVal(Cur, written[i].tables) = SchemaAfter(written[i].completed)

ReturnedTablesUnchanged ==
    \A i \in 1..Len(steps) :
       (steps[i].tool = "getTableDetails" /\ IsOk(steps[i].result)) =>
          TableVal(Cur, steps[i].result.table) = SchemaAfter(i)[steps[i].args.tableId]

\* C17: all three together
WorkingCopyIsolation ==
    BodySchemaUnchanged /\ WrittenSnapshotsUnchanged /\ ReturnedTablesUnchanged

-----------------------------------------------------------------------------
(* C19: when await result.text rejects while the abort signal is set, the  *)
(* error is swallowed, the request ends Cancelled and the remaining        *)
(* updates and the final state are still written; when it rejects while    *)
(* the signal is not set, the request ends Failed and nothing more is      *)
(* written.                                                                *)
CancellationIsTerminal ==
    awaited = "rejected" =>
       /\ ~intervalId
       /\ IF aborted
          THEN /\ streamPc = "cancelled"
               /\ operationCount > lastStreamedOperationCount =>
                     \E i \in 1..Len(written) :
                        /\ written[i].type = "data-progress"
                        /\ written[i].message[1] = "Completed operation "
                        /\ written[i].current = operationCount
               /\ operationCount > 0 =>
                     \E i \in 1..Len(written) :
                        /\ IsTablesBatch(written[i])
                        /\ written[i].isComplete
                        /\ SchemaVal(Cur, written[i].tables) = Tables
          ELSE /\ streamPc = "failed"
               /\ \A i \in 1..Len(written) :
                     /\ IsTablesBatch(written[i]) => ~written[i].isComplete
                     /\ written[i].type = "data-progress" =>
                           written[i].message[1] = "Processing operation "

\* a table was created, the client aborted, result.text rejected, and the
\* request ended Cancelled with the final state written
CancelledWitness ==
    /\ awaited = "rejected"
    /\ aborted
    /\ streamPc = "cancelled"
    /\ Len(operationHistory) > 0
    /\ operationCount > lastStreamedOperationCount
    /\ Last(written).type = "data-operation-history"

-----------------------------------------------------------------------------
(* C18: a tool invocation that returns ok: false does not block later       *)
(* invocations, and the schema and the history                             *)
(* after any sequence of invocations are those the same sequence yields    *)
(* with the failed invocations left out.                                   *)

\* the invocations that did not return ok: false
WithoutFailed(ss) == SelectSeq(ss, LAMBDA st : ~IsNotOk(st.result))

ErrorsStayLocal ==
    route = "atomic" =>
       /\ LET c == cloneTables([EmptyMachine EXCEPT !.tHeap = tHeap,
                                                    !.aHeap = aHeap],
                               bodySchema)
              m == Replay([c.m EXCEPT !.schemaState = c.schema],
                          WithoutFailed(steps))
          IN  /\ SchemaVal(m, m.schemaState) = Tables
              /\ HistoryVal(m) = History
       /\ (Len(steps) > 0 /\ Len(steps) < MaxSteps /\ ~aborted
              /\ IsNotOk(Last(steps).result)) =>
             /\ ENABLED CreateTable
             /\ ENABLED AddColumn
             /\ ENABLED DropTable

\* addColumn succeeded on users right after dropColumn had failed on it
ErrorsStayLocalWitness ==
    /\ Stepped
    /\ Len(steps) >= 2
    /\ steps[Len(steps) - 1].tool = "dropColumn"
    /\ IsNotOk(steps[Len(steps) - 1].result)
    /\ steps[Len(steps) - 1].result # Cancelled
    /\ Call.tool = "addColumn"
    /\ IsOk(Call.result)
    /\ Len(operationHistory) = Len(pre.operationHistory) + 1

-----------------------------------------------------------------------------
(* Vocabulary of the properties of the chat history hook *)

\* the threads createNewThread made less than GracePeriodMs ago
InGracePeriod == {id \in DOMAIN createdAgo : createdAgo[id] < GracePeriodMs}

\* a timer is set, or a timer callback is running, that writes thread id
WriteUnderWay(id) ==
    \/ /\ saveTimeoutRef # None
       /\ saveTimeoutRef[1].threadIdToSave = id
    \/ \E i \in DOMAIN pendingSaves : pendingSaves[i].threadIdToSave = id

\* the call of saveCurrentThread that has just returned set no timer
ScheduledNothing ==
    /\ lastCall[1].outcome # "scheduled"
    /\ saveTimeoutRef = lastCall[1].timerBefore

(***************************************************************************)
(* C20: after createNewThread is called at time t, every saveCurrentThread *)
(* call made before t + 1000 ms returns without scheduling or performing   *)
(* any write, so that nothing is stored under the new thread id, and no    *)
(* write of it is under way, during the grace period.                      *)
(***************************************************************************)
\* C20: calls of saveCurrentThread in the grace period schedule nothing
GracePeriodLock ==
    \A id \in InGracePeriod :
        /\ lastCall # None =>
              /\ lastCall[1].outcome \in {"noThreadOrEmpty", "ignored"}
              /\ ScheduledNothing
        /\ id \notin DOMAIN db
        /\ ~WriteUnderWay(id)

\* a call with the new thread id and a user message was made in the grace
\* period, after the callbacks had been rendered with the new id
GracePeriodWitness ==
    \E id \in InGracePeriod :
        /\ lastCall # None
        /\ lastCall[1].threadId = Some(id)
        /\ Len(UserMessages(lastCall[1].messages)) > 0
        /\ lastCall[1].outcome = "ignored"

\* message msg was sent in the conversation of a thread made before thread id
OfEarlierThread(msg, id) == \E t \in 1..(id - 1) : msg.thread = Some(t)

(***************************************************************************)
(* C21: for any interleaving of createNewThread, re-renders and            *)
(* saveCurrentThread calls, the messages of the previous thread are never  *)
(* written to storage under the id of the newly created thread.            *)
(***************************************************************************)
\* C21: no stored thread holds a message of a thread made before it
NewThreadsAreEmpty ==
    \A id \in DOMAIN db :
        \A i \in DOMAIN db[id].messages :
            ~OfEarlierThread(db[id].messages[i], id)

\* what the timer callbacks that are set or running are to write
WritesUnderWay ==
    {pendingSaves[i] : i \in DOMAIN pendingSaves}
       \cup (IF saveTimeoutRef = None THEN {} ELSE {saveTimeoutRef[1]})

\* the call that has just returned had no current thread, no messages or no
\* message of a user
CalledWithNothingToSave ==
    /\ lastCall # None
    /\ \/ lastCall[1].threadId = None
       \/ Len(lastCall[1].messages) = 0
       \/ \A i \in DOMAIN lastCall[1].messages :
             lastCall[1].messages[i].role # "user"

(***************************************************************************)
(* C22: every thread written to storage by saveCurrentThread has a current *)
(* thread id, a non-empty message list and at least one message with role  *)
(* user; a call with no current thread, no messages or no user message     *)
(* schedules no write.                                                     *)
(***************************************************************************)
\* C22: empty threads are never saved
EmptyThreadsNeverSaved ==
    /\ \A id \in DOMAIN db :
          /\ id \in DOMAIN createdAgo
          /\ db[id].id = id
          /\ Len(db[id].messages) > 0
          /\ \E i \in DOMAIN db[id].messages : db[id].messages[i].role = "user"
    /\ \A w \in WritesUnderWay :
          /\ w.threadIdToSave \in DOMAIN createdAgo
          /\ \E i \in DOMAIN w.messages : w.messages[i].role = "user"
    /\ CalledWithNothingToSave => ScheduledNothing

\* a thread has been stored, and a call outside the ignore period with a
\* current thread and messages none of which is a user's has just returned
EmptyThreadsWitness ==
    /\ db # <<>>
    /\ CalledWithNothingToSave
    /\ lastCall[1].outcome = "noUserMessage"

(***************************************************************************)
(* C23: for any interleaving of saveCurrentThread calls, debounce timer    *)
(* firings and asynchronous write completions, the same state (thread id,  *)
(* message count) is never written to storage twice in a row.              *)
(***************************************************************************)
\* C23: the last two writes of the store differ in thread id or message count
NoDuplicateSaves == Len(lastWrites) = 2 => lastWrites[1] # lastWrites[2]

-----------------------------------------------------------------------------
(* Vocabulary of the properties of the SQL panel *)

\* the handleApply that has just returned was given a parse result that
\* carries an error, holds no tables and no enums, or, with a single table
\* selected, holds no table or more than one
ApplyMustReject ==
    /\ lastApply # None
    /\ LET result == lastApply[1].result
           n == Cardinality(DOMAIN result.tables)
       IN  \/ result.error # None
           \/ n = 0 /\ DOMAIN result.enumTypes = {}
           \/ lastApply[1].selectedTable # AllTables /\ (n = 0 \/ n > 1)

(***************************************************************************)
(* C24: handleApply leaves the store's tables and enum types unchanged     *)
(* (updateTablesFromAI is not called) and sets an error message whenever   *)
(* the parse result carries an error, contains no tables and no enums, or, *)
(* with a single table selected, contains zero tables or more than one.    *)
(***************************************************************************)
\* C24: SQL apply rejects without side effects
ApplyRejectsWithoutSideEffects ==
    ApplyMustReject =>
        /\ ~lastApply[1].called
        /\ storeTables = lastApply[1].tables
        /\ storeEnumTypes = lastApply[1].enumTypes
        /\ selectedTable = lastApply[1].selectedTable
        /\ error # None

\* with a single table selected an apply of two tables without a parse error
\* has just been rejected
ApplyRejectsWitness ==
    /\ ApplyMustReject
    /\ lastApply[1].result.error = None
    /\ lastApply[1].selectedTable # AllTables
    /\ Cardinality(DOMAIN lastApply[1].result.tables) > 1

-----------------------------------------------------------------------------
(* Vocabulary of the properties of normaliseColumn *)

\* normaliseColumn of route r has returned
Normalised(r) == returned # None /\ returned[1].route = r

\* the default of type and format on route r
DefaultDesignator(r) == IF r = "atomic" THEN "text" ELSE "string"

PassedThrough == {"default", "fk", "enumValues", "enumTypeName", "comment"}

(***************************************************************************)
(* C26: in both normaliseColumn functions, when the input supplies only    *)
(* one of type and format the result has type and format both equal to it; *)
(* when it supplies neither, both are "text" in the atomic-tool path and   *)
(* both are "string" in the legacy path; required and pk default to false; *)
(* title, default, fk, enumValues, enumTypeName and comment are passed     *)
(* through unchanged.                                                      *)
(***************************************************************************)
\* C26: column normalization with missing type information
NormalisationDefaults ==
    \A r \in {"atomic", "legacy"} :
        Normalised(r) =>
            LET in == argument
                out == returned[1].column
            IN  /\ (Has(in, "type") /\ ~Has(in, "format")) =>
                      (out.type = in.type /\ out.format = in.type)
                /\ (Has(in, "format") /\ ~Has(in, "type")) =>
                      (out.type = in.format /\ out.format = in.format)
                /\ (~Has(in, "type") /\ ~Has(in, "format")) =>
                      (out.type = DefaultDesignator(r)
                          /\ out.format = DefaultDesignator(r))
                /\ out.required = (IF Has(in, "required") THEN in.required
                                   ELSE FALSE)
                /\ out.pk = (IF Has(in, "pk") THEN in.pk ELSE FALSE)
                /\ out.title = in.title
                /\ \A f \in PassedThrough :
                      out[f] = (IF Has(in, f) THEN Some(in[f]) ELSE None)

\* an input with a format and no type, no required and an fk has been
\* normalised on the legacy route
NormalisationWitness ==
    /\ Normalised("legacy")
    /\ Has(argument, "format") /\ ~Has(argument, "type")
    /\ ~Has(argument, "required")
    /\ Has(argument, "fk")

(***************************************************************************)
(* C27: when both type and format are supplied the atomic-tool             *)
(* normaliseColumn takes the input format as the canonical type            *)
(* (result.type = input.format) and keeps the two designators distinct,    *)
(* while the legacy normaliseColumn takes the input type as canonical      *)
(* (result.type = input.type, result.format = input.format); in neither    *)
(* path is a supplied designator lost.                                     *)
(***************************************************************************)
\* C27: type/format precedence when both are supplied
DesignatorPrecedence ==
    (returned # None /\ Has(argument, "type") /\ Has(argument, "format")) =>
        LET in == argument
            out == returned[1].column
        IN  /\ Normalised("atomic") =>
                  /\ out.type = in.format
                  /\ out.format = in.type
                  /\ (in.type # in.format => out.type # out.format)
            /\ Normalised("legacy") =>
                  /\ out.type = in.type
                  /\ out.format = in.format
            /\ {out.type, out.format} = {in.type, in.format}

\* an input with a type and a different format has been normalised on the
\* atomic-tool route
PrecedenceWitness ==
    /\ Normalised("atomic")
    /\ Has(argument, "type") /\ Has(argument, "format")
    /\ argument.type # argument.format

-----------------------------------------------------------------------------
(* Vocabulary of the properties of the SQL export *)

\* the clause c is among the clauses emitted for the column
Emitted(c) == \E i \in 1..Len(returned[1].clauses) : returned[1].clauses[i] = c

NowApplies == argument.format = "date" \/ IncludesTimestamp(argument.format)

UuidApplies ==
    argument.required /\ argument.format = "uuid" /\ ~HasFk(argument)

\* the clauses the claim gives by their conditions
ClausesAsStated ==
    /\ Emitted("default now()") <=> NowApplies
    /\ Emitted("default uuid_generate_v4()") <=> UuidApplies
    /\ HasFk(argument) =>
          (~Emitted("not null") /\ ~Emitted("default uuid_generate_v4()"))

(***************************************************************************)
(* C30: for each column of a non-view table the generator appends          *)
(* `default now()` when the format is date or a timestamp-family format,   *)
(* `default uuid_generate_v4()` when the column is required, has format    *)
(* uuid and has no fk, and otherwise `not null` when the column is         *)
(* required and has no fk; `not null` is appended only when neither        *)
(* default clause applies, and a column with an fk never gets `not null`   *)
(* or `default uuid_generate_v4()`.                                        *)
(***************************************************************************)
\* C30 as stated: not null only when neither default clause applies
ClauseSelection ==
    returned # None =>
        /\ ClausesAsStated
        /\ Emitted("not null") <=>
              (argument.required /\ ~HasFk(argument)
                  /\ ~NowApplies /\ ~UuidApplies)

\* C30 amended: not null is appended exactly when the column is required,
\* has no fk and the uuid default does not apply, whether or not
\* default now() has been appended
ClauseSelectionAmended ==
    returned # None =>
        /\ ClausesAsStated
        /\ Emitted("not null") <=>
              (argument.required /\ ~HasFk(argument) /\ ~UuidApplies)

\* a required timestamp column without fk has been emitted
ClauseSelectionWitness ==
    /\ returned # None
    /\ argument.required /\ ~HasFk(argument)
    /\ IncludesTimestamp(argument.format)
    /\ Emitted("default now()") /\ Emitted("not null")

(***************************************************************************)
(* C25: for any TableState produced only through valid mutation            *)
(* operations, parseSchemaSQL(generateSchemaSQL(tables, enums)) returns no *)
(* error and a TableState structurally equal to the original, ignoring     *)
(* position.                                                               *)
(***************************************************************************)
\* C25: the round trip through the SQL text gives the TableState back
RoundTrip ==
    (returned # None /\ returned[1].result # None) =>
        /\ returned[1].result[1].error = None
        /\ returned[1].result[1].tables = argument

\* the round trip of a table with a plain optional text column has been made
RoundTripMade ==
    /\ returned # None /\ returned[1].result # None
    /\ returned[1].result[1].tables = argument
    /\ Len(argument) = 1

(***************************************************************************)
(* C28: in every schema state reachable by any sequence of createTable,    *)
(* addColumn, dropColumn, alterColumn, renameTable and dropTable           *)
(* (atomic-tool path), no table has two columns with the same title.       *)
(***************************************************************************)
\* C28: column titles are unique within each table of the working schema
ColumnTitlesUnique ==
    route = "atomic" =>
        \A k \in DOMAIN Tables :
            \A i, j \in 1..Len(Tables[k].columns) :
                i # j => Tables[k].columns[i].title # Tables[k].columns[j].title

(***************************************************************************)
(* C29: after every successful createTable or renameTable in the           *)
(* atomic-tool path, the table stored under key K has title equal to the   *)
(* name parsed from K (last dot-separated segment) and schema equal to the *)
(* schema parsed from K (all earlier segments joined with "."), or         *)
(* "public" when K has a single segment.                                   *)
(***************************************************************************)
\* C29: the key written by createTable or renameTable agrees with the
\* title and the schema of the table stored under it
KeyFieldAgreement ==
    (/\ route = "atomic"
     /\ Stepped
     /\ Call.tool \in {"createTable", "renameTable"}
     /\ IsOk(Call.result)) =>
        LET K == TargetKey(Call)
            parsed == parseTableIdentifier(K)
        IN  /\ Tables[K].title = parsed.name
            /\ Tables[K].schema = (IF parsed.schema = None THEN Some(Public)
                                   ELSE parsed.schema)

-----------------------------------------------------------------------------
(* Vocabulary of the properties of the legacy modifySchema tool *)

\* the last invocation was modifySchema on the legacy route
LegacyCalled == route = "legacy" /\ Stepped /\ Call.tool = "modifySchema"

\* the working schema as it was when the last operation of the batch began
BeforeLastOperation ==
    LET ops == Call.args.operations
        st == LegacyLoop([m |-> pre, ok |-> TRUE, applied |-> <<>>],
                         SubSeq(ops, 1, Len(ops) - 1))
    IN  SchemaVal(st.m, st.m.schemaState)

(***************************************************************************)
(* C31: in the legacy modifySchema path, an add_column operation whose     *)
(* column title already exists in the target table is reported with status *)
(* error (ok false) and leaves the table's column list unchanged.          *)
(***************************************************************************)
\* C31: a legacy add_column of an existing title is rejected
LegacyAddColumnDuplicateRejected ==
    LegacyCalled =>
        LET ops == Call.args.operations
            n == Len(ops)
            op == ops[n]
        IN  (/\ op.action = "add_column"
             /\ op.tableId \in DOMAIN BeforeLastOperation
             /\ op.column.title \in Titles(BeforeLastOperation[op.tableId].columns)) =>
                /\ Call.result.operationsApplied[n].status = "error"
                /\ ~Call.result.ok
                /\ Tables[op.tableId].columns = BeforeLastOperation[op.tableId].columns

(***************************************************************************)
(* C32: when one table is selected and the parse yields exactly one table, *)
(* the schema passed to updateTablesFromAI contains every previously       *)
(* existing table other than the selected one unchanged, contains the      *)
(* parsed table under its parsed key with the selected table's previous    *)
(* position, no longer contains the selected key unless it equals the      *)
(* parsed key, and the enum map is the previous enum map overridden by the *)
(* parsed enums.                                                           *)
(***************************************************************************)
\* C32: the frame of a single-table SQL apply
SingleTableApplyFrame ==
    (/\ lastApply # None
     /\ lastApply[1].called
     /\ lastApply[1].selectedTable # AllTables
     /\ Cardinality(DOMAIN lastApply[1].result.tables) = 1) =>
        LET before == lastApply[1].tables
            selected == lastApply[1].selectedTable
            parsed == lastApply[1].result.tables
            newKey == CHOOSE k \in DOMAIN parsed : TRUE
        IN  /\ \A k \in DOMAIN before \ {selected} :
                  k \in DOMAIN storeTables /\ storeTables[k] = before[k]
            /\ newKey \in DOMAIN storeTables
            /\ before[selected].position # None =>
                  storeTables[newKey] =
                      [parsed[newKey] EXCEPT !.position = before[selected].position]
            /\ (selected # newKey => selected \notin DOMAIN storeTables)
            /\ storeEnumTypes = Spread(lastApply[1].enumTypes,
                                       lastApply[1].result.enumTypes)

\* the operations applied one at a time, each as a batch of its own: the
\* closure they leave and the status of each
AloneIn(m, operation) == applySchemaOperations(m, [operations |-> <<operation>>])

RECURSIVE OneByOneFrom(_, _, _)
OneByOneFrom(m, statuses, operations) ==
    IF operations = <<>> THEN [m |-> m, statuses |-> statuses]
    ELSE OneByOneFrom(AloneIn(m, Head(operations)).m,
                      Append(statuses,
                             AloneIn(m, Head(operations)).result
                                 .operationsApplied[1].status),
                      Tail(operations))

OneByOne(m, operations) == OneByOneFrom(m, <<>>, operations)

(***************************************************************************)
(* C33: applySchemaOperations processes the operations of one modifySchema *)
(* call in input order, appends exactly one operationsApplied entry per    *)
(* input operation in that order, keeps applying later operations after a  *)
(* failed one without rolling back earlier ones, returns ok = true if and  *)
(* only if every entry has status success, and returns tables equal to the *)
(* working schema after the last operation.                                *)
(***************************************************************************)
\* C33: a batch is its operations applied in order, one entry each
LegacyBatchSemantics ==
    LegacyCalled =>
        LET ops == Call.args.operations
            applied == Call.result.operationsApplied
            byOnes == OneByOne(pre, ops)
        IN  /\ Len(applied) = Len(ops)
            /\ \A i \in 1..Len(ops) :
                  /\ applied[i].action = ops[i].action
                  /\ applied[i].status = byOnes.statuses[i]
            /\ Tables = SchemaVal(byOnes.m, byOnes.m.schemaState)
            /\ Call.result.ok <=>
                  \A i \in 1..Len(applied) : applied[i].status = "success"
            /\ SchemaVal(Cur, Call.result.tables) = Tables

\* a batch of two: the first operation failed, the second was applied
LegacyBatchWitness ==
    /\ LegacyCalled
    /\ Len(Call.args.operations) = 2
    /\ Call.result.operationsApplied[1].status = "error"
    /\ Call.result.operationsApplied[2].status = "success"
    /\ ~Call.result.ok
    /\ Tables # PreTables

-----------------------------------------------------------------------------
(* Vocabulary of the properties of the order of the stream's events *)

IsBatch(p) == p.type = "data-tables-batch"
IsUpdateBatch(p) == IsBatch(p) /\ ~p.isComplete
IsFinalBatch(p) == IsBatch(p) /\ p.isComplete
IsProgress(p) == p.type = "data-progress"
IsHistory(p) == p.type = "data-operation-history"

(***************************************************************************)
(* C34: within one request the 'Processing your request...' notification   *)
(* is the first event written; every non-final data-tables-batch is        *)
(* preceded by a data-progress event with the same counter value;          *)
(* batchNumber values of successive non-final data-tables-batch events are *)
(* strictly increasing, lastStreamedOperationCount never exceeds           *)
(* operationCount, and every progress event has current <= total; the      *)
(* isComplete batch (batchNumber = operationCount + 1) comes after all     *)
(* non-final batches; the data-operation-history event is written at most  *)
(* once and only after the isComplete batch.                               *)
(***************************************************************************)
\* C34: the order of the events written to the stream
StreamEventOrdering ==
    LET n == Len(written)
    IN  /\ n > 0 =>
              written[1] = Notification(<<"Processing your request...">>, "info")
        /\ \A i \in 1..n :
              IsUpdateBatch(written[i]) =>
                  /\ i > 1
                  /\ IsProgress(written[i - 1])
                  /\ written[i - 1].current = written[i].batchNumber
        /\ \A i, j \in 1..n :
              (i < j /\ IsUpdateBatch(written[i]) /\ IsUpdateBatch(written[j])) =>
                  written[i].batchNumber < written[j].batchNumber
        /\ lastStreamedOperationCount <= operationCount
        /\ \A i \in 1..n :
              IsProgress(written[i]) => written[i].current <= written[i].total
        /\ \A i \in 1..n :
              IsFinalBatch(written[i]) =>
                  /\ written[i].batchNumber = operationCount + 1
                  /\ \A j \in 1..n : IsUpdateBatch(written[j]) => j < i
        /\ Cardinality({i \in 1..n : IsHistory(written[i])}) <= 1
        /\ \A i \in 1..n :
              IsHistory(written[i]) =>
                  \E j \in 1..(i - 1) : IsFinalBatch(written[j])

\* a request with a batch written by the interval, a batch of remaining
\* updates, the final batch and the operation history
StreamEventOrderingWitness ==
    /\ Cardinality({i \in 1..Len(written) : IsUpdateBatch(written[i])}) >= 2
    /\ \E i \in 1..Len(written) : IsFinalBatch(written[i])
    /\ IsHistory(written[Len(written)])

(***************************************************************************)
(* C35: at every point of a request, the operation counter used for        *)
(* progress, batch numbers and the 'Completed N operations' notification   *)
(* equals the number of records in operationHistory, i.e. only invocations *)
(* that actually mutated the schema are counted.                           *)
(***************************************************************************)
\* C35: the operation counter is the length of the operation history
CounterHistoryAgreement ==
    route = "atomic" => operationCount = Len(operationHistory)

(***************************************************************************)
(* C36: for every schema with no FK cycle, including schemas in which a    *)
(* column's fk names a table that is not a key of the schema, the          *)
(* dependency orderer terminates and outputs every table key exactly once. *)
(***************************************************************************)
\* C36: without an fk cycle the orderer ends with every key listed once
DanglingReferencesTerminate ==
    ~FkCycle ~>
        (/\ exportPc = "done"
         /\ Len(output) = Len(tables)
         /\ {output[p] : p \in 1..Len(output)} = TableKeys)

(***************************************************************************)
(* C37: after deleteThread(id) or clearHistory has completed, storage      *)
(* contains no deleted thread unless saveCurrentThread is called again     *)
(* after the deletion; in particular a debounced save that was scheduled   *)
(* before the deletion and fires after it does not write the thread back.  *)
(***************************************************************************)
\* C37: a deleted thread is not stored again without a new call of
\* saveCurrentThread
DeletedThreadsStayDeleted == \A id \in deleted : id \notin DOMAIN db

-----------------------------------------------------------------------------
(* Vocabulary of the properties of the read-only tools *)

ReadOnlyTools == {"listSchemas", "listTables", "getTableDetails"}

ReadOnlyCalled == Stepped /\ Call.tool \in ReadOnlyTools

\* the working schema, the counter and the history are as they were
NoSchemaEffect ==
    /\ schemaState = pre.schemaState
    /\ Tables = PreTables
    /\ operationCount = pre.operationCount
    /\ History = PreHistory

OthersKept(before, after, from) ==
    \A k \in DOMAIN before \ {from} : k \in DOMAIN after /\ after[k] = before[k]

(***************************************************************************)
(* C39: a successful renameTable(from, to), and a successful rename_table  *)
(* operation of the legacy path, leaves the number of tables unchanged and *)
(* leaves every table other than the source present with the value it had, *)
(* also when to is already a key of the schema and when to equals from.    *)
(***************************************************************************)
\* C39: rename never destroys another table
RenameDestroysNoTable ==
    /\ (Stepped /\ Call.tool = "renameTable" /\ IsOk(Call.result)) =>
          /\ Cardinality(DOMAIN schemaState) = Cardinality(DOMAIN pre.schemaState)
          /\ OthersKept(PreTables, Tables, Call.args.fromTableId)
    /\ LegacyCalled =>
          LET ops == Call.args.operations
              n == Len(ops)
          IN  (/\ ops[n].action = "rename_table"
               /\ Call.result.operationsApplied[n].status = "success") =>
                  /\ Cardinality(DOMAIN schemaState)
                        = Cardinality(DOMAIN BeforeLastOperation)
                  /\ OthersKept(BeforeLastOperation, Tables, ops[n].fromTableId)

====
